---- MODULE Spec2Model ----
(***************************************************************************)
(* A model of the anaconda installer modules:                              *)
(*   - ServiceObserver (pyanaconda/modules/subscription/service_observer)  *)
(*     with its callers, its Timer thread and the service_available        *)
(*     emitter, one step per statement that touches shared state;          *)
(*   - ConfigureServicesTask.run (modules/services/installation.py);       *)
(*   - TransferSubscriptionTokensTask.run (modules/subscription/           *)
(*     installation.py).                                                   *)
(* Each component has its own specification; the variables of the other    *)
(* components stay at their initial values.                                *)
(***************************************************************************)
EXTENDS Integers, Sequences, FiniteSets, TLC

\* ------------------------------------------------------------------ bounds
\* number of threads that call get_proxy()
NumCallers == 2
\* number of get_proxy() calls made in all
MaxCalls == 3
\* number of service_available emissions
MaxEmits == 2
\* number of distinct proxy objects the message bus can hand out
NumProxyObjects == 2
\* longest list of service names given to ConfigureServicesTask
MaxServices == 2
\* largest uid/gid number the user record conversions are tried on
MaxId == 2
\* number of conversions applied to one user record
MaxConversions == 2
\* longest list of users, groups, ssh keys, ports, trusts, services or addons in
\* a kickstart or a bus call
MaxRecords == 1
\* number of calls made on one SubscriptionModule
MaxSubCalls == 1
\* number of process_kickstart, registration and attach calls made on one
\* SubscriptionModule made by __init__
MaxKsCalls == 2

\* ------------------------------------------------------------- state
VARIABLES
    \* ServiceObserver fields
    proxy,          \* self._proxy: None or a proxy object
    timerSet,       \* self._timer is not None
    lockOwner,      \* holder of self._proxy_lock, or NoThread
    connected,      \* _service_activated is connected to service_available
    \* the Timer thread
    timerPc,        \* "none", "waiting", "call", "locked", "done"
    cancelled,      \* Timer.cancel() was called (the finished event is set)
    \* the threads calling get_proxy()
    pc,             \* position of each caller in get_proxy()
    calls,          \* number of get_proxy() calls begun so far
    began,          \* when the caller's current call began: "early", "mid", "late"
    result,         \* outcome of the caller's call, NoResult until it completes
    \* the thread that emits service_available
    emitPc,         \* "idle", "cb", "cancel", "set"
    emits,          \* number of emissions so far
    \* history of the observer
    startCount,     \* calls of util.start_service
    timerCount,     \* Timer objects created and started
    assignCount,    \* assignments to self._proxy
    timedOut,       \* the timer ran to its end and called _service_timed_out
    expiredFirst,   \* ... and no service_available had been emitted by then
    activatedInTime,\* _service_activated cancelled the timer while it waited
    failedAfterTimeout, \* a call has raised after the timer expired
    \* ConfigureServicesTask
    disabled_services, enabled_services, svcPc, svcIdx, svcLog, svcState,
    \* TransferSubscriptionTokensTask
    srcFiles, transfer_subscription_tokens, xferPc, xferStatus, xferLog, xferCopied,
    \* ConfigureSystemdDefaultTargetTask
    tgtArg,         \* the default_target argument of __init__
    default_target, \* self._default_target
    etcSystemd,     \* <sysroot>/etc/systemd/system is a directory
    defaultLink,    \* <sysroot>/etc/systemd/system/default.target: "absent",
                    \* "file", or the target a symbolic link there points to
    defaultLink0,   \* what was there when the task was created
    tgtPc,          \* "new", "check_target", "check_dir", "unlink", "symlink"
    tgtStatus,      \* "running", "returned", "raised", "oserror"
    tgtOps,         \* the filesystem changes run() has made
    \* one user record passed between kickstart data and UserData
    recOrig,        \* the record the conversions started from
    recCur,         \* the record after the conversions applied so far
    recPath,        \* the conversions applied, in order
    \* UsersModule behind UsersInterface
    root_password,  \* self._root_password
    root_password_is_crypted,
    root_account_locked,
    rootpw_seen,
    users,          \* self._users: a list of UserData
    groups,         \* self._groups: a list of GroupData
    ssh_keys,       \* self._ssh_keys: a list of SshKeyData
    usrLast,        \* the last call: its name, whether it raised, its arguments
    usrKs,          \* the kickstart data of the last generate_kickstart, if any
    usrNotified,    \* the properties named in the last call's PropertiesChanged
    \* FirewallModule behind FirewallInterface
    firewall_seen,
    use_system_defaults,
    firewall_enabled,
    enabled_ports,
    trusts,
    fw_enabled_services,    \* self._enabled_services
    fw_disabled_services,   \* self._disabled_services
    fwBaseSeen,     \* what reading self.seen gives: "missing", "true" or "false"
    fwShadowed,     \* the six set_* attributes of the instance hold data values
    fwData,         \* the kickstart data the last call processed or set up
    fwLast,         \* the last call: its name and whether it raised
    fwNotified,     \* the properties named in the last call's PropertiesChanged
    \* SubscriptionModule behind SubscriptionInterface
    role, sla, usage, addons,
    organization, activation_key,
    red_hat_account_username, red_hat_account_password,
    subscription_url,
    registered, subscription_attached,
    subCalls,       \* number of calls made so far
    subLast,        \* the last call: its name and whether it raised
    subArg,         \* the argument of the last call, if it was a setter
    subNotified,    \* the properties named in the last call's PropertiesChanged
    subKs,          \* the last process_kickstart: its data, its remote steps in
                    \* order, the signals the module emitted
    subResult       \* the outcome of the last registration or attach call

obsVars == <<proxy, timerSet, lockOwner, connected, timerPc, cancelled, pc, calls,
             began, result, emitPc, emits, startCount, timerCount, assignCount,
             timedOut, expiredFirst, activatedInTime, failedAfterTimeout>>
svcVars == <<disabled_services, enabled_services, svcPc, svcIdx, svcLog, svcState>>
xferVars == <<srcFiles, transfer_subscription_tokens, xferPc, xferStatus, xferLog,
              xferCopied>>
tgtVars == <<tgtArg, default_target, etcSystemd, defaultLink, defaultLink0, tgtPc,
             tgtStatus, tgtOps>>
recVars == <<recOrig, recCur, recPath>>
fwVars == <<firewall_seen, use_system_defaults, firewall_enabled, enabled_ports,
            trusts, fw_enabled_services, fw_disabled_services, fwBaseSeen,
            fwShadowed, fwData, fwLast, fwNotified>>
subVars == <<role, sla, usage, addons, organization, activation_key,
             red_hat_account_username, red_hat_account_password, subscription_url,
             registered, subscription_attached, subCalls, subLast, subArg,
             subNotified, subKs, subResult>>
usrVars == <<root_password, root_password_is_crypted, root_account_locked,
             rootpw_seen, users, groups, ssh_keys, usrLast, usrKs, usrNotified>>
vars == <<obsVars, svcVars, xferVars, tgtVars, recVars, usrVars, fwVars, subVars>>

\* ------------------------------------------------------------- values
Callers == 1..NumCallers
ProxyObjects == 1..NumProxyObjects
None == 0
\* holders of the lock: nobody, a caller, the timer thread, the emitter thread
NoThread == 0
TimerThread == NumCallers + 1
EmitterThread == NumCallers + 2
\* outcomes of a get_proxy() call: it returned proxy p, it raised, none yet
Returned(p) == <<"return", p>>
DBusObserverError == <<"raise", None>>
\* ... it raised the error util.start_service raised
StartServiceError == <<"start_service", None>>
NoResult == <<"none", None>>

\* =====================================================================
\* ServiceObserver
\* =====================================================================

\* __init__: no proxy, no timer, the lock is free, nothing connected
ObsInit ==
    /\ proxy = None
    /\ timerSet = FALSE
    /\ lockOwner = NoThread
    /\ connected = FALSE
    /\ timerPc = "none"
    /\ cancelled = FALSE
    /\ pc = [t \in Callers |-> "idle"]
    /\ calls = 0
    /\ began = [t \in Callers |-> "early"]
    /\ result = [t \in Callers |-> NoResult]
    /\ emitPc = "idle"
    /\ emits = 0
    /\ startCount = 0
    /\ timerCount = 0
    /\ assignCount = 0
    /\ timedOut = FALSE
    /\ expiredFirst = FALSE
    /\ activatedInTime = FALSE
    /\ failedAfterTimeout = FALSE

obsHistory == <<startCount, timerCount, assignCount, timedOut, expiredFirst,
                activatedInTime, failedAfterTimeout>>
obsEmitter == <<emitPc, emits>>
obsTimer == <<timerPc, cancelled>>

\* a call completes with outcome r: the outcome is recorded
Finish(t, r) ==
    /\ result' = [result EXCEPT ![t] = r]
    /\ pc' = [pc EXCEPT ![t] = "idle"]
    /\ failedAfterTimeout' = (failedAfterTimeout \/ (r = DBusObserverError /\ timedOut))

\* when a call begins: "early" before activation has resolved (no proxy, the
\* timer not finished), "late" once the timer has finished, "mid" otherwise
Phase ==
    IF timerPc = "done" THEN "late"
    ELSE IF proxy = None THEN "early" ELSE "mid"

\* a thread calls get_proxy()
Call(t) ==
    /\ pc[t] = "idle"
    /\ calls < MaxCalls
    /\ pc' = [pc EXCEPT ![t] = "acquire"]
    /\ calls' = calls + 1
    /\ began' = [began EXCEPT ![t] = Phase]
    /\ result' = [result EXCEPT ![t] = NoResult]
    /\ UNCHANGED <<proxy, timerSet, lockOwner, connected, obsTimer, obsEmitter,
                   obsHistory>>

\* a variant of Acquire that enters the block without waiting for the lock
AcquireNoLock(t) ==
    /\ pc[t] = "acquire"
    /\ pc' = [pc EXCEPT ![t] = "check"]
    /\ lockOwner' = IF lockOwner = NoThread THEN t ELSE lockOwner
    /\ UNCHANGED <<proxy, timerSet, connected, obsTimer, calls, began, result,
                   obsEmitter, obsHistory>>

\* "with self._proxy_lock:" at the top of get_proxy
Acquire(t) ==
    /\ pc[t] = "acquire"
    /\ lockOwner = NoThread
    /\ lockOwner' = t
    /\ pc' = [pc EXCEPT ![t] = "check"]
    /\ UNCHANGED <<proxy, timerSet, connected, obsTimer, calls, began, result,
                   obsEmitter, obsHistory>>

\* a variant of ServiceNotStarted that tests whether the timer is still alive
ServiceNotStartedAlive == timerPc \notin {"waiting", "call", "locked"}

\* "elif not self._timer": the service was not started yet
ServiceNotStarted == ~timerSet

\* leaving a with block releases the lock the thread holds
Release(t) == IF lockOwner = t THEN NoThread ELSE lockOwner

\* "if self._proxy: return / elif not self._timer: ..." under the lock
CheckProxy(t) ==
    /\ pc[t] = "check"
    /\ IF proxy # None
         THEN /\ Finish(t, Returned(proxy))
              /\ lockOwner' = Release(t)
         ELSE /\ IF ServiceNotStarted
                   THEN /\ pc' = [pc EXCEPT ![t] = "start"]
                        /\ UNCHANGED lockOwner
                   ELSE /\ pc' = [pc EXCEPT ![t] = "join"]
                        /\ lockOwner' = Release(t)
              /\ UNCHANGED <<result, failedAfterTimeout>>
    /\ UNCHANGED <<proxy, timerSet, connected, obsTimer, calls, began, obsEmitter,
                   startCount, timerCount, assignCount, timedOut, expiredFirst,
                   activatedInTime>>

\* a variant of StartService that connects _service_activated before the timer
\* is created
StartServiceConnectsFirst(t) ==
    /\ pc[t] = "start"
    /\ startCount' = startCount + 1
    /\ connected' = TRUE
    /\ pc' = [pc EXCEPT ![t] = "mktimer"]
    /\ UNCHANGED <<proxy, timerSet, lockOwner, obsTimer, calls, began,
                   result, obsEmitter, timerCount, assignCount, timedOut,
                   expiredFirst, activatedInTime, failedAfterTimeout>>

\* util.start_service(self._systemd_unit_name)
StartService(t) ==
    /\ pc[t] = "start"
    /\ startCount' = startCount + 1
    /\ pc' = [pc EXCEPT ![t] = "mktimer"]
    /\ UNCHANGED <<proxy, timerSet, lockOwner, connected, obsTimer, calls, began,
                   result, obsEmitter, timerCount, assignCount, timedOut,
                   expiredFirst, activatedInTime, failedAfterTimeout>>

\* a variant of StartServiceRaises in which the lock is not released when the
\* error leaves the with block
StartServiceRaisesKeepsLock(t) ==
    /\ pc[t] = "start"
    /\ startCount = 0
    /\ startCount' = startCount + 1
    /\ Finish(t, StartServiceError)
    /\ UNCHANGED <<proxy, timerSet, lockOwner, connected, obsTimer, calls, began,
                   obsEmitter, timerCount, assignCount, timedOut, expiredFirst,
                   activatedInTime>>

\* the first call of util.start_service(self._systemd_unit_name) raises: the
\* error leaves the with block, which releases the lock, and get_proxy
StartServiceRaises(t) ==
    /\ pc[t] = "start"
    /\ startCount = 0
    /\ startCount' = startCount + 1
    /\ Finish(t, StartServiceError)
    /\ lockOwner' = Release(t)
    /\ UNCHANGED <<proxy, timerSet, connected, obsTimer, calls, began,
                   obsEmitter, timerCount, assignCount, timedOut, expiredFirst,
                   activatedInTime>>

\* self._timer = Timer(...); self._timer.start()
CreateTimer(t) ==
    /\ pc[t] = "mktimer"
    /\ timerSet' = TRUE
    /\ timerPc' = "waiting"
    /\ cancelled' = FALSE
    /\ timerCount' = timerCount + 1
    /\ pc' = [pc EXCEPT ![t] = "connect"]
    /\ UNCHANGED <<proxy, lockOwner, connected, calls, began, result, obsEmitter,
                   startCount, assignCount, timedOut, expiredFirst, activatedInTime,
                   failedAfterTimeout>>

\* a variant of Connect that goes on to join() with the lock still held
ConnectKeepLock(t) ==
    /\ pc[t] = "connect"
    /\ connected' = TRUE
    /\ pc' = [pc EXCEPT ![t] = "join"]
    /\ UNCHANGED <<proxy, timerSet, lockOwner, obsTimer, calls, began, result,
                   obsEmitter, obsHistory>>

\* self.service_available.connect(self._service_activated), end of the with block
Connect(t) ==
    /\ pc[t] = "connect"
    /\ connected' = TRUE
    /\ lockOwner' = Release(t)
    /\ pc' = [pc EXCEPT ![t] = "join"]
    /\ UNCHANGED <<proxy, timerSet, obsTimer, calls, began, result, obsEmitter,
                   obsHistory>>

\* self._timer.join(): returns once the timer thread has ended
Join(t) ==
    /\ pc[t] = "join"
    /\ timerPc = "done"
    /\ pc' = [pc EXCEPT ![t] = "reacquire"]
    /\ UNCHANGED <<proxy, timerSet, lockOwner, connected, obsTimer, calls, began,
                   result, obsEmitter, obsHistory>>

\* the second "with self._proxy_lock:"
Reacquire(t) ==
    /\ pc[t] = "reacquire"
    /\ lockOwner = NoThread
    /\ lockOwner' = t
    /\ pc' = [pc EXCEPT ![t] = "recheck"]
    /\ UNCHANGED <<proxy, timerSet, connected, obsTimer, calls, began, result,
                   obsEmitter, obsHistory>>

\* "if self._proxy: return self._proxy / else: raise DBusObserverError"
Recheck(t) ==
    /\ pc[t] = "recheck"
    /\ Finish(t, IF proxy # None THEN Returned(proxy) ELSE DBusObserverError)
    /\ lockOwner' = Release(t)
    /\ UNCHANGED <<proxy, timerSet, connected, obsTimer, calls, began, obsEmitter,
                   startCount, timerCount, assignCount, timedOut, expiredFirst,
                   activatedInTime>>

\* ---- the Timer thread: finished.wait(interval); if not finished.is_set():
\* function(); finished.set()

\* the interval elapsed with the timer not cancelled: the function gets called
TimerExpire ==
    /\ timerPc = "waiting"
    /\ ~cancelled
    /\ timerPc' = "call"
    /\ timedOut' = TRUE
    /\ expiredFirst' = (emits = 0)
    /\ UNCHANGED <<proxy, timerSet, lockOwner, connected, cancelled, pc, calls,
                   began, result, obsEmitter, startCount, timerCount, assignCount,
                   activatedInTime, failedAfterTimeout>>

\* the wait was interrupted by cancel(): the thread ends without the call
TimerCancelled ==
    /\ timerPc = "waiting"
    /\ cancelled
    /\ timerPc' = "done"
    /\ UNCHANGED <<proxy, timerSet, lockOwner, connected, cancelled, pc, calls,
                   began, result, obsEmitter, obsHistory>>

\* _service_timed_out: "with self._proxy_lock:"
TimedOutLock ==
    /\ timerPc = "call"
    /\ lockOwner = NoThread
    /\ lockOwner' = TimerThread
    /\ timerPc' = "locked"
    /\ UNCHANGED <<proxy, timerSet, connected, cancelled, pc, calls, began, result,
                   obsEmitter, obsHistory>>

\* a variant of TimedOutLog that marks the failure by clearing the proxy
TimedOutLogResets ==
    /\ timerPc = "locked"
    /\ proxy' = None
    /\ lockOwner' = NoThread
    /\ timerPc' = "done"
    /\ UNCHANGED <<timerSet, connected, cancelled, pc, calls, began, result,
                   obsEmitter, obsHistory>>

\* a variant of TimedOutLog in which the timer thread ends with the lock held
TimedOutLogKeepsLock ==
    /\ timerPc = "locked"
    /\ timerPc' = "done"
    /\ UNCHANGED <<proxy, timerSet, lockOwner, connected, cancelled, pc, calls,
                   began, result, obsEmitter, obsHistory>>

\* _service_timed_out: log.error(...) and nothing else, then the thread ends
TimedOutLog ==
    /\ timerPc = "locked"
    /\ lockOwner' = NoThread
    /\ timerPc' = "done"
    /\ UNCHANGED <<proxy, timerSet, connected, cancelled, pc, calls, began, result,
                   obsEmitter, obsHistory>>

\* ---- the emitter: observer.service_available.emit()

\* the signal calls the callbacks connected at the time of the emission
Emit ==
    /\ emitPc = "idle"
    /\ emits < MaxEmits
    /\ emits' = emits + 1
    /\ emitPc' = IF connected THEN "cb" ELSE "idle"
    /\ UNCHANGED <<proxy, timerSet, lockOwner, connected, obsTimer, pc, calls,
                   began, result, obsHistory>>

\* _service_activated: "with self._proxy_lock:"
ActivatedLock ==
    /\ emitPc = "cb"
    /\ lockOwner = NoThread
    /\ lockOwner' = EmitterThread
    /\ emitPc' = "cancel"
    /\ UNCHANGED <<proxy, timerSet, connected, obsTimer, pc, calls, began, result,
                   emits, obsHistory>>

\* _service_activated: self._timer.cancel()
ActivatedCancel ==
    /\ emitPc = "cancel"
    /\ cancelled' = TRUE
    /\ activatedInTime' = (activatedInTime \/ timerPc = "waiting")
    /\ emitPc' = "set"
    /\ UNCHANGED <<proxy, timerSet, lockOwner, connected, timerPc, pc, calls, began,
                   result, emits, startCount, timerCount, assignCount, timedOut,
                   expiredFirst, failedAfterTimeout>>

\* _service_activated: self._proxy = self._message_bus.get_proxy(...), end of with
ActivatedSet ==
    /\ emitPc = "set"
    /\ \E p \in ProxyObjects : proxy' = p
    /\ assignCount' = assignCount + 1
    /\ lockOwner' = NoThread
    /\ emitPc' = "idle"
    /\ UNCHANGED <<timerSet, connected, obsTimer, pc, calls, began, result, emits,
                   startCount, timerCount, timedOut, expiredFirst, activatedInTime,
                   failedAfterTimeout>>

\* the steps of threads that are inside an operation of the observer
ObsProgress ==
    \/ \E t \in Callers : Acquire(t)
    \/ \E t \in Callers : CheckProxy(t)
    \/ \E t \in Callers : StartService(t)
    \/ \E t \in Callers : CreateTimer(t)
    \/ \E t \in Callers : Connect(t)
    \/ \E t \in Callers : Join(t)
    \/ \E t \in Callers : Reacquire(t)
    \/ \E t \in Callers : Recheck(t)
    \/ TimerExpire
    \/ TimerCancelled
    \/ TimedOutLock
    \/ TimedOutLog
    \/ ActivatedLock
    \/ ActivatedCancel
    \/ ActivatedSet

ObsNext ==
    \/ \E t \in Callers : Call(t)
    \/ Emit
    \/ ObsProgress

\* the steps of one caller inside get_proxy()
CallerStep(t) ==
    \/ Acquire(t)
    \/ CheckProxy(t)
    \/ StartService(t)
    \/ CreateTimer(t)
    \/ Connect(t)
    \/ Join(t)
    \/ Reacquire(t)
    \/ Recheck(t)

\* the steps of the Timer thread
TimerStep ==
    \/ TimerExpire
    \/ TimerCancelled
    \/ TimedOutLock
    \/ TimedOutLog

\* the steps of the _service_activated callback in the emitter thread
CallbackStep ==
    \/ ActivatedLock
    \/ ActivatedCancel
    \/ ActivatedSet

\* the observer when util.start_service may raise
ObsFailNext ==
    \/ ObsNext
    \/ \E t \in Callers : StartServiceRaises(t)

\* =====================================================================
\* ConfigureServicesTask
\* =====================================================================
ServiceNames == {"a", "b"}

SeqsUpTo(S, n) == UNION {[1..k -> S] : k \in 0..n}

\* no task is running
SvcIdle ==
    /\ disabled_services = <<>>
    /\ enabled_services = <<>>
    /\ svcPc = 3
    /\ svcIdx = 1
    /\ svcLog = <<>>
    /\ svcState = [s \in ServiceNames |-> "untouched"]

\* ConfigureServicesTask.__init__ with any two lists of service names; the state
\* of the services on the target system is not known to the task
SvcInit ==
    /\ disabled_services \in SeqsUpTo(ServiceNames, MaxServices)
    /\ enabled_services \in SeqsUpTo(ServiceNames, MaxServices)
    /\ svcPc = 1
    /\ svcIdx = 1
    /\ svcLog = <<>>
    /\ svcState = [s \in ServiceNames |-> "untouched"]

\* a variant of SvcLoops with the two loops swapped
SvcLoopsEnableFirst == <<"enable", "disable">>

\* run(): the order of its two for loops
SvcLoops == <<"disable", "enable">>

\* the list a loop of run() iterates over
SvcList(loop) == IF loop = "disable" THEN disabled_services ELSE enabled_services

\* util.disable_service(name, root) / util.enable_service(name, root)
SvcEffect(loop) == IF loop = "disable" THEN "disabled" ELSE "enabled"

\* one iteration of the current loop of run()
SvcCall ==
    /\ svcPc <= Len(SvcLoops)
    /\ svcIdx <= Len(SvcList(SvcLoops[svcPc]))
    /\ LET loop == SvcLoops[svcPc]
           name == SvcList(loop)[svcIdx]
       IN /\ svcLog' = Append(svcLog, <<loop, name>>)
          /\ svcState' = [svcState EXCEPT ![name] = SvcEffect(loop)]
    /\ svcIdx' = svcIdx + 1
    /\ UNCHANGED <<disabled_services, enabled_services, svcPc>>

\* the current loop of run() is exhausted: on to the next one, or return
SvcLoopEnd ==
    /\ svcPc <= Len(SvcLoops)
    /\ svcIdx > Len(SvcList(SvcLoops[svcPc]))
    /\ svcPc' = svcPc + 1
    /\ svcIdx' = 1
    /\ UNCHANGED <<disabled_services, enabled_services, svcLog, svcState>>

SvcDone == svcPc > Len(SvcLoops)

SvcNext == SvcCall \/ SvcLoopEnd

\* =====================================================================
\* TransferSubscriptionTokensTask
\* =====================================================================

\* what the installation environment holds at each source path
SourceFiles ==
    [syspurpose : {"absent", "file", "dir"},
     config : BOOLEAN,
     consumer_key : BOOLEAN,
     consumer_cert : BOOLEAN,
     entitlement : {"absent", "empty", "nopem", "pem"},
     repo_file : BOOLEAN]

XferIdle ==
    /\ srcFiles = [syspurpose |-> "absent", config |-> FALSE, consumer_key |-> FALSE,
                   consumer_cert |-> FALSE, entitlement |-> "absent",
                   repo_file |-> FALSE]
    /\ transfer_subscription_tokens = FALSE
    /\ xferPc = 1
    /\ xferStatus = "returned"
    /\ xferLog = <<>>
    /\ xferCopied = {}

\* TransferSubscriptionTokensTask.__init__ on any installation environment
XferInit ==
    /\ srcFiles \in SourceFiles
    /\ transfer_subscription_tokens \in BOOLEAN
    /\ xferPc = 1
    /\ xferStatus = "running"
    /\ xferLog = <<>>
    /\ xferCopied = {}

\* the outcome of a step: the files it copied, and whether it raised
Outcome(ok, files) == [raises |-> ~ok, files |-> files]

\* _copy_file_to_path: False if the source is not a file, else copy it
copy_file_to_path(isfile, name) ==
    IF ~isfile THEN [ok |-> FALSE, files |-> {}]
               ELSE [ok |-> TRUE, files |-> {name}]

\* a variant of copy_pem_files that does not look whether the folder is empty
copy_pem_files_unchecked(folder, name) ==
    IF folder = "absent" THEN [ok |-> FALSE, files |-> {}]
    ELSE [ok |-> TRUE, files |-> IF folder = "pem" THEN {name} ELSE {}]

\* _copy_pem_files with not_empty=True: False if the folder is absent or empty,
\* else copy its *.pem files
copy_pem_files(folder, name) ==
    IF folder = "absent" THEN [ok |-> FALSE, files |-> {}]
    ELSE IF folder = "empty" THEN [ok |-> FALSE, files |-> {}]
    ELSE [ok |-> TRUE, files |-> IF folder = "pem" THEN {name} ELSE {}]

\* _transfer_system_purpose: copy the file if the path exists, never raise
transfer_system_purpose ==
    IF srcFiles.syspurpose # "absent"
      THEN Outcome(TRUE, copy_file_to_path(srcFiles.syspurpose = "file",
                                           "system_purpose").files)
      ELSE Outcome(TRUE, {})

\* a variant of RaiseUnless that ignores the value the copy helper returns
RaiseUnlessIgnored(copy) == Outcome(TRUE, copy.files)

\* a transfer method raises SubscriptionTokenTransferError when the copy helper
\* returns False
RaiseUnless(copy) == Outcome(copy.ok, copy.files)

transfer_rhsm_config_file ==
    RaiseUnless(copy_file_to_path(srcFiles.config, "config"))

transfer_consumer_key ==
    RaiseUnless(copy_file_to_path(srcFiles.consumer_key, "consumer_key"))

transfer_consumer_cert ==
    RaiseUnless(copy_file_to_path(srcFiles.consumer_cert, "consumer_cert"))

transfer_entitlement_keys ==
    RaiseUnless(copy_pem_files(srcFiles.entitlement, "entitlement_keys"))

transfer_repo_file ==
    RaiseUnless(copy_file_to_path(srcFiles.repo_file, "repo_file"))

\* run(): the methods it calls, in the order of its statements
XferSteps ==
    <<"system_purpose", "config", "consumer_key", "consumer_cert",
      "entitlement_keys", "repo_file">>

XferMethod(step) ==
    CASE step = "system_purpose" -> transfer_system_purpose
      [] step = "config" -> transfer_rhsm_config_file
      [] step = "consumer_key" -> transfer_consumer_key
      [] step = "consumer_cert" -> transfer_consumer_cert
      [] step = "entitlement_keys" -> transfer_entitlement_keys
      [] step = "repo_file" -> transfer_repo_file

\* a variant of XferReturnsAfter that does not look at the flag
XferReturnsAtEnd(step) == step = XferSteps[Len(XferSteps)]

\* run() returns after the system purpose step when the tokens are not wanted
XferReturnsAfter(step) ==
    \/ step = "system_purpose" /\ ~transfer_subscription_tokens
    \/ step = XferSteps[Len(XferSteps)]

\* one statement of run(): call the next method; its error ends run()
XferStep ==
    /\ xferStatus = "running"
    /\ LET step == XferSteps[xferPc]
           out == XferMethod(step)
       IN /\ xferLog' = Append(xferLog, step)
          /\ xferCopied' = xferCopied \cup out.files
          /\ xferStatus' = IF out.raises THEN "raised"
                           ELSE IF XferReturnsAfter(step) THEN "returned"
                           ELSE "running"
          /\ xferPc' = IF out.raises \/ XferReturnsAfter(step) THEN xferPc
                                                              ELSE xferPc + 1
    /\ UNCHANGED <<srcFiles, transfer_subscription_tokens>>

XferNext == XferStep

\* =====================================================================
\* ConfigureSystemdDefaultTargetTask
\* =====================================================================
\* the names imported from pyanaconda.core.constants; their values are distinct
TEXT_ONLY_TARGET == "multi-user.target"
GRAPHICAL_TARGET == "graphical.target"

SUPPORTED_SYSTEMD_TARGETS == {TEXT_ONLY_TARGET, GRAPHICAL_TARGET}

\* the default_target arguments a caller may pass: nothing, a supported target,
\* or another unit name
TargetArgs == {"", TEXT_ONLY_TARGET, GRAPHICAL_TARGET, "rescue.target"}

\* no task exists
TgtIdle ==
    /\ tgtArg = ""
    /\ default_target = ""
    /\ etcSystemd = FALSE
    /\ defaultLink = "absent"
    /\ defaultLink0 = "absent"
    /\ tgtPc = "symlink"
    /\ tgtStatus = "returned"
    /\ tgtOps = <<>>

\* a task is about to be created for any target system: nothing can be at
\* default.target unless its directory is there
TgtInit ==
    /\ tgtArg \in TargetArgs
    /\ default_target = ""
    /\ etcSystemd \in BOOLEAN
    /\ defaultLink \in {"absent", "file"} \cup (TargetArgs \ {""})
    /\ ~etcSystemd => defaultLink = "absent"
    /\ defaultLink0 = defaultLink
    /\ tgtPc = "new"
    /\ tgtStatus = "running"
    /\ tgtOps = <<>>

tgtFs == <<etcSystemd, defaultLink, defaultLink0, tgtOps>>

\* __init__: an empty default_target becomes the text only target
TgtConstruct ==
    /\ tgtStatus = "running"
    /\ tgtPc = "new"
    /\ default_target' = IF tgtArg = "" THEN TEXT_ONLY_TARGET ELSE tgtArg
    /\ tgtPc' = "check_target"
    /\ UNCHANGED <<tgtArg, tgtStatus, tgtFs>>

\* run(): raise if the target is not supported
TgtCheckTarget ==
    /\ tgtStatus = "running"
    /\ tgtPc = "check_target"
    /\ IF default_target \notin SUPPORTED_SYSTEMD_TARGETS
         THEN tgtStatus' = "raised" /\ tgtPc' = tgtPc
         ELSE tgtStatus' = tgtStatus /\ tgtPc' = "check_dir"
    /\ UNCHANGED <<tgtArg, default_target, tgtFs>>

\* a variant of SystemdDirMissing that finds the directory in every case
SystemdDirNeverMissing == FALSE

\* not os.path.isdir(<sysroot>/etc/systemd/system)
SystemdDirMissing == ~etcSystemd

\* run(): raise if there is no etc/systemd/system directory
TgtCheckDir ==
    /\ tgtStatus = "running"
    /\ tgtPc = "check_dir"
    /\ IF SystemdDirMissing
         THEN tgtStatus' = "raised" /\ tgtPc' = tgtPc
         ELSE tgtStatus' = tgtStatus /\ tgtPc' = "unlink"
    /\ UNCHANGED <<tgtArg, default_target, tgtFs>>

\* run(): unlink default.target if it is a symbolic link
TgtUnlink ==
    /\ tgtStatus = "running"
    /\ tgtPc = "unlink"
    /\ IF defaultLink \notin {"absent", "file"}
         THEN defaultLink' = "absent" /\ tgtOps' = Append(tgtOps, "unlink")
         ELSE UNCHANGED <<defaultLink, tgtOps>>
    /\ tgtPc' = "symlink"
    /\ UNCHANGED <<tgtArg, default_target, tgtStatus, etcSystemd, defaultLink0>>

\* run(): os.symlink to the selected target; it fails with an OSError when the
\* directory is missing or something is at default.target
TgtSymlink ==
    /\ tgtStatus = "running"
    /\ tgtPc = "symlink"
    /\ IF etcSystemd /\ defaultLink = "absent"
         THEN /\ defaultLink' = default_target
              /\ tgtOps' = Append(tgtOps, "symlink")
              /\ tgtStatus' = "returned"
         ELSE /\ UNCHANGED <<defaultLink, tgtOps>>
              /\ tgtStatus' = "oserror"
    /\ UNCHANGED <<tgtArg, default_target, tgtPc, etcSystemd, defaultLink0>>

TgtNext == TgtConstruct \/ TgtCheckTarget \/ TgtCheckDir \/ TgtUnlink \/ TgtSymlink

\* =====================================================================
\* user records: apply_ksdata_to_user_data and user_data_to_ksdata
\* =====================================================================
\* a uid or gid: Python's None, or an integer
KsNone == <<"None", 0>>
IntVal(v) == <<"int", v>>

\* the value the bus structures use for "not set"
ID_NOT_SET == IntVal(-1)

\* the uid/gid values of a kickstart user command, and of a UserData structure
KsIds == {KsNone} \cup {IntVal(v) : v \in -1..MaxId}
DataIds == {IntVal(v) : v \in -1..MaxId}

\* a variant of KsIdToData that copies the kickstart value as it is
KsIdToDataCopied(v) == v

\* apply_ksdata_to_user_data, for uid and for gid: None becomes -1
KsIdToData(v) == IF v = KsNone THEN ID_NOT_SET ELSE v

\* user_data_to_ksdata, for uid and for gid: -1 becomes None
DataIdToKs(v) == IF v = ID_NOT_SET THEN KsNone ELSE v

\* apply_ksdata_to_user_data on the fields of a user record the model keeps
apply_ksdata_to_user_data(user_ksdata) ==
    [name |-> user_ksdata.name,
     uid |-> KsIdToData(user_ksdata.uid),
     gid |-> KsIdToData(user_ksdata.gid)]

\* user_data_to_ksdata on the same fields
user_data_to_ksdata(user_data) ==
    [name |-> user_data.name,
     uid |-> DataIdToKs(user_data.uid),
     gid |-> DataIdToKs(user_data.gid)]

\* no record is being converted
RecIdle ==
    /\ recOrig = [side |-> "data", rec |-> [name |-> "user", uid |-> ID_NOT_SET,
                                            gid |-> ID_NOT_SET]]
    /\ recCur = recOrig
    /\ recPath = <<"done">>

\* a kickstart user command as the parser leaves it, or a UserData structure as
\* the bus delivers it
RecInit ==
    /\ recOrig \in
          {[side |-> "ks", rec |-> [name |-> "user", uid |-> u, gid |-> g]] :
              u \in KsIds, g \in KsIds}
          \cup
          {[side |-> "data", rec |-> [name |-> "user", uid |-> u, gid |-> g]] :
              u \in DataIds, g \in DataIds}
    /\ recCur = recOrig
    /\ recPath = <<>>

\* process_kickstart's loop body: UserData from a kickstart user command
RecApply ==
    /\ Len(recPath) < MaxConversions
    /\ \A i \in 1..Len(recPath) : recPath[i] # "done"
    /\ recCur.side = "ks"
    /\ recCur' = [side |-> "data", rec |-> apply_ksdata_to_user_data(recCur.rec)]
    /\ recPath' = Append(recPath, "apply")
    /\ UNCHANGED recOrig

\* generate_kickstart's loop body: a kickstart user command from UserData
RecToKs ==
    /\ Len(recPath) < MaxConversions
    /\ \A i \in 1..Len(recPath) : recPath[i] # "done"
    /\ recCur.side = "data"
    /\ recCur' = [side |-> "ks", rec |-> user_data_to_ksdata(recCur.rec)]
    /\ recPath' = Append(recPath, "to_ks")
    /\ UNCHANGED recOrig

RecNext == RecApply \/ RecToKs

\* =====================================================================
\* UsersModule and UsersInterface
\* =====================================================================
\* a call through the interface that emits PropertiesChanged for the watched
\* properties whose signal the call emitted; a call that raises emits nothing
PropertiesChanged(watched, signals, raised) ==
    IF raised THEN {}
    ELSE {watched[sig] : sig \in (signals \cap DOMAIN watched)}

\* UsersInterface.connect_signals: the signal each property is watched on
UsersWatched ==
    [users_changed |-> "Users",
     groups_changed |-> "Groups",
     ssh_keys_changed |-> "SshKeys",
     root_password_is_set_changed |-> "IsRootPasswordSet",
     root_account_locked_changed |-> "IsRootAccountLocked",
     rootpw_seen_changed |-> "IsRootpwKickstarted"]

\* the root passwords tried
RootPasswords == {"", "abcef"}

\* the rootpw command of a kickstart
KsRootpw ==
    [password : RootPasswords, isCrypted : BOOLEAN, lock : BOOLEAN, seen : BOOLEAN]

\* a kickstart without a rootpw command
KsNoRootpw == [password |-> "", isCrypted |-> FALSE, lock |-> FALSE, seen |-> FALSE]

\* user commands of a kickstart: each uid/gid value occurs in one of them
KsUsers ==
    {[name |-> "user", uid |-> KsNone, gid |-> IntVal(1000)],
     [name |-> "user", uid |-> IntVal(1000), gid |-> ID_NOT_SET]}

\* group commands of a kickstart
KsGroups == {[name |-> "wheel", gid |-> g] : g \in {KsNone, ID_NOT_SET, IntVal(1000)}}

\* sshkey commands of a kickstart, and SshKeyData structures
SshKeyRecords == {[username |-> "root", key |-> "ssh-rsa AAAA"]}

\* the UserData and GroupData structures a bus client sends
BusUsers == {apply_ksdata_to_user_data(u) : u \in KsUsers}
BusGroups == {[name |-> "wheel", gid |-> g] : g \in {ID_NOT_SET, IntVal(1000)}}

\* the parsed kickstarts given to process_kickstart: a rootpw command, or user
\* commands, or group commands, or sshkey commands
KsHandlers ==
    {[rootpw |-> r, userList |-> <<>>, groupList |-> <<>>, sshUserList |-> <<>>] :
        r \in KsRootpw}
    \cup {[rootpw |-> KsNoRootpw, userList |-> l, groupList |-> <<>>,
           sshUserList |-> <<>>] : l \in SeqsUpTo(KsUsers, MaxRecords)}
    \cup {[rootpw |-> KsNoRootpw, userList |-> <<>>, groupList |-> l,
           sshUserList |-> <<>>] : l \in SeqsUpTo(KsGroups, MaxRecords)}
    \cup {[rootpw |-> KsNoRootpw, userList |-> <<>>, groupList |-> <<>>,
           sshUserList |-> l] : l \in SeqsUpTo(SshKeyRecords, MaxRecords)}

\* a call record for a call without arguments the properties speak of
UsrCall(op) == [op |-> op, raised |-> FALSE, groupList |-> <<>>, lock |-> FALSE]

\* UsersModule.__init__
UsrInit ==
    /\ root_password = ""
    /\ root_password_is_crypted = FALSE
    /\ root_account_locked = FALSE
    /\ rootpw_seen = FALSE
    /\ users = <<>>
    /\ groups = <<>>
    /\ ssh_keys = <<>>
    /\ usrLast = UsrCall("__init__")
    /\ usrKs = <<>>
    /\ usrNotified = {}

\* no module exists
UsrIdle ==
    /\ root_password = ""
    /\ root_password_is_crypted = FALSE
    /\ root_account_locked = FALSE
    /\ rootpw_seen = FALSE
    /\ users = <<>>
    /\ groups = <<>>
    /\ ssh_keys = <<>>
    /\ usrLast = UsrCall("none")
    /\ usrKs = <<>>
    /\ usrNotified = {}

\* a variant of root_password_is_set that reads the _root_password_is_set field,
\* which __init__ sets to False and nothing updates
root_password_is_set_field == FALSE

\* the root_password_is_set property: bool(self._root_password)
root_password_is_set == root_password # ""

\* the properties UsersInterface reads from the module
IsRootPasswordSet == root_password_is_set
IsRootAccountLocked == root_account_locked
IsRootpwKickstarted == rootpw_seen

\* the outcome of process_kickstart(data): the fields it leaves, the signals it
\* emitted, and whether it raised. The loops over groupList and sshUserList read
\* the name ksdata, which is not defined: their first iteration raises NameError
process_kickstart(data) ==
    LET user_data_list ==
            [i \in 1..Len(data.userList) |-> apply_ksdata_to_user_data(data.userList[i])]
        first == {"root_password_is_set_changed", "root_account_locked_changed",
                  "rootpw_seen_changed", "users_changed"}
        groupsRaise == data.groupList # <<>>
        sshRaise == ~groupsRaise /\ data.sshUserList # <<>>
    IN [root_password |-> data.rootpw.password,
        root_password_is_crypted |-> data.rootpw.isCrypted,
        root_account_locked |-> data.rootpw.lock,
        rootpw_seen |-> data.rootpw.seen,
        users |-> user_data_list,
        groups |-> IF groupsRaise THEN groups ELSE <<>>,
        ssh_keys |-> IF groupsRaise \/ sshRaise THEN ssh_keys ELSE <<>>,
        raised |-> groupsRaise \/ sshRaise,
        signals |-> first
                    \cup (IF groupsRaise THEN {} ELSE {"groups_changed"})
                    \cup (IF groupsRaise \/ sshRaise THEN {} ELSE {"ssh_keys_changed"})]

\* the outcome of generate_kickstart(): the kickstart data it fills in, and the
\* groups it leaves: for a group whose gid is -1 it assigns None to the stored
\* group's gid and leaves the gid of the kickstart group at its default, None
generate_kickstart ==
    [data |->
        [rootpw |-> [password |-> root_password,
                     isCrypted |-> root_password_is_crypted,
                     lock |-> root_account_locked,
                     seen |-> rootpw_seen],
         userList |-> [i \in 1..Len(users) |-> user_data_to_ksdata(users[i])],
         groupList |-> [i \in 1..Len(groups) |->
                          [name |-> groups[i].name,
                           gid |-> IF groups[i].gid = ID_NOT_SET THEN KsNone
                                   ELSE groups[i].gid]],
         sshUserList |-> ssh_keys],
     groups |-> [i \in 1..Len(groups) |->
                   [name |-> groups[i].name,
                    gid |-> IF groups[i].gid = ID_NOT_SET THEN KsNone
                            ELSE groups[i].gid]]]

usrRoot == <<root_password, root_password_is_crypted>>
usrLists == <<users, groups, ssh_keys>>

\* ReadKickstart(kickstart): process_kickstart on the parsed kickstart
UsrReadKickstart ==
    \E data \in KsHandlers :
        LET out == process_kickstart(data)
        IN /\ root_password' = out.root_password
           /\ root_password_is_crypted' = out.root_password_is_crypted
           /\ root_account_locked' = out.root_account_locked
           /\ rootpw_seen' = out.rootpw_seen
           /\ users' = out.users
           /\ groups' = out.groups
           /\ ssh_keys' = out.ssh_keys
           /\ usrLast' = [op |-> "ReadKickstart", raised |-> out.raised,
                          groupList |-> data.groupList, lock |-> data.rootpw.lock]
           /\ usrKs' = <<>>
           /\ usrNotified' = PropertiesChanged(UsersWatched, out.signals, out.raised)

\* GenerateKickstart(): generate_kickstart
UsrGenerateKickstart ==
    /\ usrKs' = <<generate_kickstart.data>>
    /\ groups' = generate_kickstart.groups
    /\ usrLast' = UsrCall("GenerateKickstart")
    /\ usrNotified' = {}
    /\ UNCHANGED <<usrRoot, root_account_locked, rootpw_seen, users, ssh_keys>>

\* SetRootpwKickstarted(rootpw_seen): set_rootpw_seen
UsrSetRootpwKickstarted ==
    \E seen \in BOOLEAN :
        /\ rootpw_seen' = seen
        /\ usrLast' = UsrCall("SetRootpwKickstarted")
        /\ usrKs' = <<>>
        /\ usrNotified' = PropertiesChanged(UsersWatched, {"rootpw_seen_changed"}, FALSE)
        /\ UNCHANGED <<usrRoot, root_account_locked, usrLists>>

\* SetCryptedRootPassword(crypted_root_password): set_root_password
UsrSetCryptedRootPassword ==
    \E password \in RootPasswords :
        /\ root_password' = password
        /\ root_password_is_crypted' = TRUE
        /\ usrLast' = UsrCall("SetCryptedRootPassword")
        /\ usrKs' = <<>>
        /\ usrNotified' =
              PropertiesChanged(UsersWatched, {"root_password_is_set_changed"}, FALSE)
        /\ UNCHANGED <<root_account_locked, rootpw_seen, usrLists>>

\* clear_root_password: the password it stores
clear_root_password == ""

\* ClearRootPassword(): clear_root_password
UsrClearRootPassword ==
    /\ root_password' = clear_root_password
    /\ root_password_is_crypted' = FALSE
    /\ usrLast' = UsrCall("ClearRootPassword")
    /\ usrKs' = <<>>
    /\ usrNotified' =
          PropertiesChanged(UsersWatched, {"root_password_is_set_changed"}, FALSE)
    /\ UNCHANGED <<root_account_locked, rootpw_seen, usrLists>>

\* a variant of set_root_account_locked that also emits the password signal
set_root_account_locked_signals_both ==
    {"root_account_locked_changed", "root_password_is_set_changed"}

\* set_root_account_locked: the signals it emits
set_root_account_locked_signals == {"root_account_locked_changed"}

\* SetRootAccountLocked(root_account_locked): set_root_account_locked
UsrSetRootAccountLocked ==
    \E locked \in BOOLEAN :
        /\ root_account_locked' = locked
        /\ usrLast' = [UsrCall("SetRootAccountLocked") EXCEPT !.lock = locked]
        /\ usrKs' = <<>>
        /\ usrNotified' =
              PropertiesChanged(UsersWatched, set_root_account_locked_signals, FALSE)
        /\ UNCHANGED <<usrRoot, rootpw_seen, usrLists>>

\* SetUsers(users): set_users
UsrSetUsers ==
    \E list \in SeqsUpTo(BusUsers, MaxRecords) :
        /\ users' = list
        /\ usrLast' = UsrCall("SetUsers")
        /\ usrKs' = <<>>
        /\ usrNotified' = PropertiesChanged(UsersWatched, {"users_changed"}, FALSE)
        /\ UNCHANGED <<usrRoot, root_account_locked, rootpw_seen, groups, ssh_keys>>

\* SetGroups(groups): set_groups
UsrSetGroups ==
    \E list \in SeqsUpTo(BusGroups, MaxRecords) :
        /\ groups' = list
        /\ usrLast' = UsrCall("SetGroups")
        /\ usrKs' = <<>>
        /\ usrNotified' = PropertiesChanged(UsersWatched, {"groups_changed"}, FALSE)
        /\ UNCHANGED <<usrRoot, root_account_locked, rootpw_seen, users, ssh_keys>>

\* SetSshKeys(ssh_keys): set_ssh_keys
UsrSetSshKeys ==
    \E list \in SeqsUpTo(SshKeyRecords, MaxRecords) :
        /\ ssh_keys' = list
        /\ usrLast' = UsrCall("SetSshKeys")
        /\ usrKs' = <<>>
        /\ usrNotified' = PropertiesChanged(UsersWatched, {"ssh_keys_changed"}, FALSE)
        /\ UNCHANGED <<usrRoot, root_account_locked, rootpw_seen, users, groups>>

UsrNext ==
    \/ UsrReadKickstart
    \/ UsrGenerateKickstart
    \/ UsrSetRootpwKickstarted
    \/ UsrSetCryptedRootPassword
    \/ UsrClearRootPassword
    \/ UsrSetRootAccountLocked
    \/ UsrSetUsers
    \/ UsrSetGroups
    \/ UsrSetSshKeys

\* =====================================================================
\* FirewallModule and FirewallInterface
\* =====================================================================
\* FirewallInterface.connect_signals: the signal each property is watched on
FirewallWatched ==
    [firewall_seen_changed |-> "FirewallKickstarted",
     use_system_defaults_changed |-> "UseSystemDefaults",
     firewall_enabled_changed |-> "FirewallEnabled",
     enabled_ports_changed |-> "EnabledPorts",
     trusts_changed |-> "Trusts",
     enabled_services_changed |-> "EnabledServices",
     disabled_services_changed |-> "DisabledServices"]

\* the lists of ports, trusted devices and services tried
PortLists == SeqsUpTo({"22:tcp"}, MaxRecords)
TrustLists == SeqsUpTo({"eth0"}, MaxRecords)
ServiceLists == SeqsUpTo({"ssh"}, MaxRecords)

\* the data of a kickstart with no firewall command
FwNoCommand ==
    [use_system_defaults |-> FALSE, enabled |-> TRUE, ports |-> <<>>,
     trusts |-> <<>>, services |-> <<>>, remove_services |-> <<>>]

\* the data of a firewall command: its two switches, or one of its lists
FwKsData ==
    {[FwNoCommand EXCEPT !.use_system_defaults = d, !.enabled = e] :
        d \in BOOLEAN, e \in BOOLEAN}
    \cup {[FwNoCommand EXCEPT !.ports = l] : l \in PortLists}
    \cup {[FwNoCommand EXCEPT !.trusts = l] : l \in TrustLists}
    \cup {[FwNoCommand EXCEPT !.services = l] : l \in ServiceLists}
    \cup {[FwNoCommand EXCEPT !.remove_services = l] : l \in ServiceLists}

fwProps == <<use_system_defaults, firewall_enabled, enabled_ports, trusts,
             fw_enabled_services, fw_disabled_services>>

FwFields ==
    /\ firewall_seen = FALSE
    /\ use_system_defaults = FALSE
    /\ firewall_enabled = TRUE
    /\ enabled_ports = <<>>
    /\ trusts = <<>>
    /\ fw_enabled_services = <<>>
    /\ fw_disabled_services = <<>>
    /\ fwShadowed = FALSE
    /\ fwData = FwNoCommand
    /\ fwNotified = {}

\* FirewallModule.__init__; whether the base class gives the module a seen
\* attribute is not decided by the module's own code
FwInit ==
    /\ FwFields
    /\ fwBaseSeen \in {"missing", "true", "false"}
    /\ fwLast = [op |-> "__init__", raised |-> FALSE]

\* no module exists
FwIdle ==
    /\ FwFields
    /\ fwBaseSeen = "missing"
    /\ fwLast = [op |-> "none", raised |-> FALSE]

\* process_kickstart(data): set_firewall_seen(self.seen), then six assignments
\* to the attributes set_use_system_defaults ... set_disabled_services of the
\* instance; no setter is called, so no property changes and no signal is emitted
\* but firewall_seen_changed
FwProcessKickstart ==
    \E data \in FwKsData :
        /\ fwData' = data
        /\ IF fwBaseSeen = "missing"
             THEN /\ fwLast' = [op |-> "process_kickstart", raised |-> TRUE]
                  /\ UNCHANGED <<firewall_seen, fwShadowed>>
             ELSE /\ fwLast' = [op |-> "process_kickstart", raised |-> FALSE]
                  /\ firewall_seen' = (fwBaseSeen = "true")
                  /\ fwShadowed' = TRUE
        /\ fwNotified' = {}
        /\ UNCHANGED <<fwProps, fwBaseSeen>>

\* setup_kickstart(data): copy the six properties into the data
FwSetupKickstart ==
    /\ fwData' = [use_system_defaults |-> use_system_defaults,
                  enabled |-> firewall_enabled,
                  ports |-> enabled_ports,
                  trusts |-> trusts,
                  services |-> fw_enabled_services,
                  remove_services |-> fw_disabled_services]
    /\ fwLast' = [op |-> "setup_kickstart", raised |-> FALSE]
    /\ fwNotified' = {}
    /\ UNCHANGED <<firewall_seen, fwProps, fwBaseSeen, fwShadowed>>

\* a setter of the interface: it calls the module's set_* attribute, which is
\* the method unless process_kickstart has put a data value in its place; the
\* method stores the value and emits the property's signal
FwSetter(op, signal) ==
    /\ fwLast' = [op |-> op, raised |-> fwShadowed]
    /\ fwNotified' = PropertiesChanged(FirewallWatched, {signal}, fwShadowed)
    /\ fwData' = FwNoCommand
    /\ UNCHANGED <<firewall_seen, fwBaseSeen, fwShadowed>>

\* what a set_* call stores: the value, unless the call raised
FwStored(old, new) == IF fwShadowed THEN old ELSE new

FwSetUseSystemDefaults ==
    \E v \in BOOLEAN :
        /\ FwSetter("SetUseSystemDefaults", "use_system_defaults_changed")
        /\ use_system_defaults' = FwStored(use_system_defaults, v)
        /\ UNCHANGED <<firewall_enabled, enabled_ports, trusts, fw_enabled_services,
                       fw_disabled_services>>

FwSetFirewallEnabled ==
    \E v \in BOOLEAN :
        /\ FwSetter("SetFirewallEnabled", "firewall_enabled_changed")
        /\ firewall_enabled' = FwStored(firewall_enabled, v)
        /\ UNCHANGED <<use_system_defaults, enabled_ports, trusts,
                       fw_enabled_services, fw_disabled_services>>

FwSetEnabledPorts ==
    \E v \in PortLists :
        /\ FwSetter("SetEnabledPorts", "enabled_ports_changed")
        /\ enabled_ports' = FwStored(enabled_ports, v)
        /\ UNCHANGED <<use_system_defaults, firewall_enabled, trusts,
                       fw_enabled_services, fw_disabled_services>>

FwSetTrusts ==
    \E v \in TrustLists :
        /\ FwSetter("SetTrusts", "trusts_changed")
        /\ trusts' = FwStored(trusts, v)
        /\ UNCHANGED <<use_system_defaults, firewall_enabled, enabled_ports,
                       fw_enabled_services, fw_disabled_services>>

FwSetEnabledServices ==
    \E v \in ServiceLists :
        /\ FwSetter("SetEnabledServices", "enabled_services_changed")
        /\ fw_enabled_services' = FwStored(fw_enabled_services, v)
        /\ UNCHANGED <<use_system_defaults, firewall_enabled, enabled_ports, trusts,
                       fw_disabled_services>>

FwSetDisabledServices ==
    \E v \in ServiceLists :
        /\ FwSetter("SetDisabledServices", "disabled_services_changed")
        /\ fw_disabled_services' = FwStored(fw_disabled_services, v)
        /\ UNCHANGED <<use_system_defaults, firewall_enabled, enabled_ports, trusts,
                       fw_enabled_services>>

\* the properties FirewallInterface reads from the module
FirewallKickstarted == firewall_seen
UseSystemDefaults == use_system_defaults
FirewallEnabled == firewall_enabled
EnabledPorts == enabled_ports
Trusts == enabled_ports
EnabledServices == fw_enabled_services
DisabledServices == fw_disabled_services

FwNext ==
    \/ FwProcessKickstart
    \/ FwSetupKickstart
    \/ FwSetUseSystemDefaults
    \/ FwSetFirewallEnabled
    \/ FwSetEnabledPorts
    \/ FwSetTrusts
    \/ FwSetEnabledServices
    \/ FwSetDisabledServices

\* =====================================================================
\* SubscriptionModule and SubscriptionInterface
\* =====================================================================
\* SubscriptionInterface.connect_signals: the signal each property is watched
\* on; the watches of the subscription properties are commented out
SubscriptionWatched ==
    [role_changed |-> "Role",
     sla_changed |-> "SLA",
     usage_changed |-> "Usage",
     addons_changed |-> "Addons",
     is_system_purpose_set_changed |-> "IsSystemPurposeSet"]

\* __init__ connects the four system purpose signals to
\* is_system_purpose_set_changed.emit
SubEmitted(signals) ==
    signals \cup
    (IF signals \cap {"role_changed", "sla_changed", "usage_changed",
                      "addons_changed"} # {}
       THEN {"is_system_purpose_set_changed"} ELSE {})

\* the valid fields system_purpose.get_valid_fields() loads
valid_roles == {"Server"}
valid_slas == {"Premium"}
valid_usage_types == {"Production"}

\* the values tried: nothing, a valid field, a valid field in another case and
\* with trailing white space, a custom value
Roles == {"", "Server", "server ", "custom role"}
SLAs == {"", "Premium", "custom sla"}
Usages == {"", "Production", "production "}
AddonLists == SeqsUpTo({"addon"}, MaxRecords)
Organizations == {"", "org"}
ActivationKeys == {"", "key"}
SubscriptionUrls == {"", "subscription.example.com"}
AccountUsernames == {"", "user"}
AccountPasswords == {"", "password"}

\* a value without its case and its surrounding white space
NormalForm(value) ==
    CASE value \in {"Server", "server "} -> "server"
      [] value \in {"Production", "production "} -> "production"
      [] value = "Premium" -> "premium"
      [] OTHER -> value

\* system_purpose.match_field: the valid field the value matches without regard
\* to case and white space, or nothing
match_field(value, valid_fields) ==
    IF \E field \in valid_fields : NormalForm(field) = NormalForm(value)
      THEN CHOOSE field \in valid_fields : NormalForm(field) = NormalForm(value)
      ELSE ""

\* what the remote RHSM service does during one process_kickstart: everything
\* works, a call made while starting the service, setting the URL or starting
\* the private bus raises, the registration fails, or the attach fails
SubRemotes == {"ok", "rhsm_raises", "register_fails", "attach_fails"}

\* the same, telling apart the call that raises: the start of the service
\* ("rhsm_raises"), a call made to set the URL, the start of the private bus,
\* the connection to the private bus made for the registration
SubRemotesAll == SubRemotes \cup {"url_raises", "bus_raises", "register_raises"}

\* outcomes of a registration or attach call: it returned a value, it raised,
\* none yet
SubReturned(value) == <<"return", value>>
SubRaised == <<"raise", FALSE>>
SubNoResult == <<"none", FALSE>>

\* what the remote service does during one registration or attach call: the
\* call works, the service cannot be reached, the call made to it fails
SubCallEnvs == {"ok", "connect_fails", "call_fails"}

\* _register_with_org_key: the connection and the proxy are made before the
\* try block, the remote call inside it
register_with_org_key(env) ==
    IF env = "connect_fails" THEN SubRaised ELSE SubReturned(env = "ok")

\* _register_with_username_password: as _register_with_org_key
register_with_username_password(env) ==
    IF env = "connect_fails" THEN SubRaised ELSE SubReturned(env = "ok")

\* _auto_attach_subscription: the proxies and the remote call are all made
\* inside the try block
auto_attach_subscription(env) == SubReturned(env = "ok")

\* what a registration and an attach made by process_kickstart meet
SubRegisterEnv(remote) ==
    CASE remote = "register_raises" -> "connect_fails"
      [] remote = "register_fails" -> "call_fails"
      [] OTHER -> "ok"
SubAttachEnv(remote) == IF remote = "attach_fails" THEN "call_fails" ELSE "ok"

\* a variant of SubStepOrder that registers before the private bus is started
SubStepOrderRegisterFirst ==
    <<"start_service", "set_url", "restart_service", "register",
      "start_private_bus", "attach">>

\* the remote steps of process_kickstart, in the order of its statements
SubStepOrder ==
    <<"start_service", "set_url", "restart_service", "start_private_bus",
      "register", "attach">>

\* the step of process_kickstart that raises, if one does
SubRaisingStep(remote, registers) ==
    CASE remote = "rhsm_raises" -> "start_service"
      [] remote = "url_raises" -> "set_url"
      [] remote = "bus_raises" -> "start_private_bus"
      [] remote = "register_raises" /\ registers -> "register"
      [] OTHER -> "none"

\* the remote steps process_kickstart begins: those up to the one that raises,
\* the registration when there is an organization and a key, the attach when
\* the module is registered by then
SubStepsBegun(remote, registers, reg) ==
    LET stop == SubRaisingStep(remote, registers)
        last == IF stop = "none" THEN Len(SubStepOrder)
                ELSE CHOOSE i \in 1..Len(SubStepOrder) : SubStepOrder[i] = stop
        Begun(step) == /\ step = "register" => registers
                       /\ step = "attach" => reg
    IN SelectSeq(SubSeq(SubStepOrder, 1, last), Begun)

\* the fields of a module, as a record
SubModule ==
    [role |-> role, sla |-> sla, usage |-> usage, addons |-> addons,
     organization |-> organization, activation_key |-> activation_key,
     red_hat_account_username |-> red_hat_account_username,
     red_hat_account_password |-> red_hat_account_password,
     subscription_url |-> subscription_url,
     registered |-> registered, subscription_attached |-> subscription_attached]

\* SubscriptionModule.__init__
SubFresh ==
    [role |-> "", sla |-> "", usage |-> "", addons |-> <<>>,
     organization |-> "", activation_key |-> "",
     red_hat_account_username |-> "", red_hat_account_password |-> "",
     subscription_url |-> "",
     registered |-> FALSE, subscription_attached |-> FALSE]

\* the module's fields are those of the record
SubIs(m) ==
    /\ role = m.role
    /\ sla = m.sla
    /\ usage = m.usage
    /\ addons = m.addons
    /\ organization = m.organization
    /\ activation_key = m.activation_key
    /\ red_hat_account_username = m.red_hat_account_username
    /\ red_hat_account_password = m.red_hat_account_password
    /\ subscription_url = m.subscription_url
    /\ registered = m.registered
    /\ subscription_attached = m.subscription_attached

\* the kickstart data of a handler nothing was written to
SubNoCommand ==
    [role |-> "", sla |-> "", usage |-> "", addons |-> <<>>,
     organization |-> "", activation_key |-> "", url |-> "",
     subscription_url |-> ""]

\* the parsed kickstarts given to process_kickstart: a syspurpose command with
\* one option, or an rhsm command
SubKsData ==
    {[SubNoCommand EXCEPT !.role = v] : v \in Roles}
    \cup {[SubNoCommand EXCEPT !.sla = v] : v \in SLAs}
    \cup {[SubNoCommand EXCEPT !.usage = v] : v \in Usages}
    \cup {[SubNoCommand EXCEPT !.addons = v] : v \in AddonLists}
    \cup {[SubNoCommand EXCEPT !.organization = o, !.activation_key = k, !.url = u] :
            o \in Organizations, k \in ActivationKeys, u \in SubscriptionUrls}

\* a variant of SubProcessField that stores every kickstart value as it is
SubProcessFieldVerbatim(value, valid_fields, stored) ==
    IF value = "" THEN stored ELSE value

\* _process_role, _process_sla, _process_usage: the value stored for a field
\* of the kickstart data, given the valid fields and the value stored so far
SubProcessField(value, valid_fields, stored) ==
    IF value = "" THEN stored
    ELSE IF match_field(value, valid_fields) # "" THEN match_field(value, valid_fields)
    ELSE value

\* the outcome of process_kickstart(data) on the module m, the remote service
\* behaving as given: the fields it leaves, the signals it emitted, the remote
\* steps it began, whether it raised
sub_process_kickstart(m, data, remote) ==
    LET registers == data.organization # "" /\ data.activation_key # ""
        stop == SubRaisingStep(remote, registers)
        early == stop \in {"start_service", "set_url", "start_private_bus"}
        registration == register_with_org_key(SubRegisterEnv(remote))
        reg == IF early \/ ~registers \/ registration = SubRaised THEN m.registered
               ELSE registration[2]
        attaches == ~early /\ stop # "register" /\ reg
        att == IF attaches THEN auto_attach_subscription(SubAttachEnv(remote))[2]
               ELSE m.subscription_attached
    IN [fields |->
          [m EXCEPT !.role = SubProcessField(data.role, valid_roles, m.role),
                    !.sla = SubProcessField(data.sla, valid_slas, m.sla),
                    !.usage = SubProcessField(data.usage, valid_usage_types, m.usage),
                    !.addons = IF data.addons # <<>> THEN data.addons ELSE m.addons,
                    !.organization = data.organization,
                    !.activation_key = data.activation_key,
                    !.subscription_url = data.url,
                    !.registered = reg,
                    !.subscription_attached = att],
        signals |->
          SubEmitted((IF data.role # "" THEN {"role_changed"} ELSE {})
                     \cup (IF data.sla # "" THEN {"sla_changed"} ELSE {})
                     \cup (IF data.usage # "" THEN {"usage_changed"} ELSE {})
                     \cup (IF data.addons # <<>> THEN {"addons_changed"} ELSE {})
                     \cup {"organization_changed", "activation_key_changed",
                           "subscription_url_changed"}
                     \cup (IF ~early /\ registers /\ stop # "register"
                            THEN {"registered_changed"} ELSE {})
                     \cup (IF attaches
                            THEN {"subscription_attached_changed"} ELSE {})),
        steps |-> SubStepsBegun(remote, registers, attaches),
        raised |-> stop # "none"]

\* generate_kickstart(): the kickstart data it fills in; it writes the URL to
\* data.rhsm.subscription_url and leaves data.rhsm.url, which process_kickstart
\* reads, as the handler has it
sub_generate_kickstart(m) ==
    [role |-> m.role, sla |-> m.sla, usage |-> m.usage, addons |-> m.addons,
     organization |-> m.organization, activation_key |-> m.activation_key,
     url |-> SubNoCommand.url,
     subscription_url |-> m.subscription_url]

\* no process_kickstart was called
SubNoKickstart == [data |-> SubNoCommand, steps |-> <<>>, signals |-> {}]

\* no module exists
SubIdle ==
    /\ SubIs(SubFresh)
    /\ subCalls = 0
    /\ subLast = [op |-> "none", raised |-> FALSE]
    /\ subArg = <<>>
    /\ subNotified = {}
    /\ subKs = SubNoKickstart
    /\ subResult = SubNoResult

\* a module after __init__ and any calls of the setters of its system purpose,
\* its organization, its activation key and its subscription URL
SubInit ==
    /\ role \in Roles
    /\ sla \in SLAs
    /\ usage \in Usages
    /\ addons \in AddonLists
    /\ organization \in Organizations
    /\ activation_key \in ActivationKeys
    /\ red_hat_account_username = ""
    /\ red_hat_account_password = ""
    /\ subscription_url \in SubscriptionUrls
    /\ registered = FALSE
    /\ subscription_attached = FALSE
    /\ subCalls = 0
    /\ subLast = [op |-> "__init__", raised |-> FALSE]
    /\ subArg = <<>>
    /\ subNotified = {}
    /\ subKs = SubNoKickstart
    /\ subResult = SubNoResult

\* a call is made and leaves the module with the fields of m
SubCall(op, arg, m, signals, raised) ==
    /\ subCalls < MaxSubCalls
    /\ subCalls' = subCalls + 1
    /\ role' = m.role
    /\ sla' = m.sla
    /\ usage' = m.usage
    /\ addons' = m.addons
    /\ organization' = m.organization
    /\ activation_key' = m.activation_key
    /\ red_hat_account_username' = m.red_hat_account_username
    /\ red_hat_account_password' = m.red_hat_account_password
    /\ subscription_url' = m.subscription_url
    /\ registered' = m.registered
    /\ subscription_attached' = m.subscription_attached
    /\ subLast' = [op |-> op, raised |-> raised]
    /\ subArg' = arg
    /\ subNotified' = PropertiesChanged(SubscriptionWatched, SubEmitted(signals), raised)
    /\ subKs' = SubNoKickstart
    /\ subResult' = SubNoResult

SubSetRole ==
    \E v \in Roles :
        SubCall("SetRole", <<v>>, [SubModule EXCEPT !.role = v], {"role_changed"}, FALSE)

SubSetSLA ==
    \E v \in SLAs :
        SubCall("SetSLA", <<v>>, [SubModule EXCEPT !.sla = v], {"sla_changed"}, FALSE)

SubSetUsage ==
    \E v \in Usages :
        SubCall("SetUsage", <<v>>, [SubModule EXCEPT !.usage = v], {"usage_changed"},
                FALSE)

SubSetAddons ==
    \E v \in AddonLists :
        SubCall("SetAddons", <<v>>, [SubModule EXCEPT !.addons = v],
                {"addons_changed"}, FALSE)

SubSetOrganization ==
    \E v \in Organizations :
        SubCall("SetOrganization", <<v>>, [SubModule EXCEPT !.organization = v],
                {"organization_changed"}, FALSE)

SubSetActivationKey ==
    \E v \in ActivationKeys :
        SubCall("SetActivationKey", <<v>>, [SubModule EXCEPT !.activation_key = v],
                {"activation_key_changed"}, FALSE)

SubSetAccountUsername ==
    \E v \in AccountUsernames :
        SubCall("SetAccountUsername", <<v>>,
                [SubModule EXCEPT !.red_hat_account_username = v],
                {"red_hat_account_username_changed"}, FALSE)

SubSetAccountPassword ==
    \E v \in AccountPasswords :
        SubCall("SetAccountPassword", <<v>>,
                [SubModule EXCEPT !.red_hat_account_password = v],
                {"red_hat_account_password_changed"}, FALSE)

SubSetSubscriptionUrl ==
    \E v \in SubscriptionUrls :
        SubCall("SetSubscriptionUrl", <<v>>, [SubModule EXCEPT !.subscription_url = v],
                {"subscription_url_changed"}, FALSE)

\* ReadKickstart(kickstart): process_kickstart on the parsed kickstart
SubReadKickstart ==
    \E data \in SubKsData, remote \in SubRemotes :
        LET out == sub_process_kickstart(SubModule, data, remote)
        IN SubCall("ReadKickstart", <<>>, out.fields, out.signals, out.raised)

\* the description generate_kickstart() makes of this module is processed by
\* process_kickstart on a module made by __init__, which takes this one's place
SubRoundTrip ==
    \E remote \in SubRemotes :
        LET out == sub_process_kickstart(SubFresh, sub_generate_kickstart(SubModule),
                                         remote)
        IN SubCall("RoundTrip", <<>>, out.fields, out.signals, out.raised)

\* ---- a module made by __init__ on which process_kickstart, the registrations
\* and the attach are called

SubKsInit ==
    /\ SubIs(SubFresh)
    /\ subCalls = 0
    /\ subLast = [op |-> "__init__", raised |-> FALSE]
    /\ subArg = <<>>
    /\ subNotified = {}
    /\ subKs = SubNoKickstart
    /\ subResult = SubNoResult

\* a call that leaves the module with the fields of m
SubKsCall(op, m, raised) ==
    /\ subCalls < MaxKsCalls
    /\ subCalls' = subCalls + 1
    /\ role' = m.role
    /\ sla' = m.sla
    /\ usage' = m.usage
    /\ addons' = m.addons
    /\ organization' = m.organization
    /\ activation_key' = m.activation_key
    /\ red_hat_account_username' = m.red_hat_account_username
    /\ red_hat_account_password' = m.red_hat_account_password
    /\ subscription_url' = m.subscription_url
    /\ registered' = m.registered
    /\ subscription_attached' = m.subscription_attached
    /\ subLast' = [op |-> op, raised |-> raised]
    /\ subArg' = <<>>

\* process_kickstart(data)
SubProcessKickstart ==
    \E data \in SubKsData, remote \in SubRemotesAll :
        LET out == sub_process_kickstart(SubModule, data, remote)
        IN /\ SubKsCall("process_kickstart", out.fields, out.raised)
           /\ subNotified' = PropertiesChanged(SubscriptionWatched, out.signals,
                                               out.raised)
           /\ subKs' = [data |-> data, steps |-> out.steps, signals |-> out.signals]
           /\ subResult' = SubNoResult

\* a registration or attach call: the module keeps its fields
SubRemoteCall(op, outcome) ==
    /\ SubKsCall(op, SubModule, outcome = SubRaised)
    /\ subNotified' = {}
    /\ subKs' = SubNoKickstart
    /\ subResult' = outcome

SubRegisterWithOrgKey ==
    \E env \in SubCallEnvs :
        SubRemoteCall("_register_with_org_key", register_with_org_key(env))

SubRegisterWithUsernamePassword ==
    \E env \in SubCallEnvs :
        SubRemoteCall("_register_with_username_password",
                      register_with_username_password(env))

SubAutoAttachSubscription ==
    \E env \in SubCallEnvs :
        SubRemoteCall("_auto_attach_subscription", auto_attach_subscription(env))

SubKsNext ==
    \/ SubProcessKickstart
    \/ SubRegisterWithOrgKey
    \/ SubRegisterWithUsernamePassword
    \/ SubAutoAttachSubscription

SubNext ==
    \/ SubSetRole
    \/ SubSetSLA
    \/ SubSetUsage
    \/ SubSetAddons
    \/ SubSetOrganization
    \/ SubSetActivationKey
    \/ SubSetAccountUsername
    \/ SubSetAccountPassword
    \/ SubSetSubscriptionUrl
    \/ SubReadKickstart
    \/ SubRoundTrip

\* =====================================================================
\* specifications
\* =====================================================================

\* the ServiceObserver with its callers, its timer and the signal emitter
Init == ObsInit /\ SvcIdle /\ XferIdle /\ TgtIdle /\ RecIdle /\ UsrIdle
    /\ FwIdle /\ SubIdle

Next == ObsNext /\ UNCHANGED <<svcVars, xferVars, tgtVars, recVars, usrVars
    , fwVars, subVars>>

Spec == Init /\ [][Next]_vars

\* one run of ConfigureServicesTask
SvcSpecInit == ObsInit /\ SvcInit /\ XferIdle /\ TgtIdle /\ RecIdle /\ UsrIdle
    /\ FwIdle /\ SubIdle

SvcSpecNext == SvcNext /\ UNCHANGED <<obsVars, xferVars, tgtVars, recVars
    , usrVars, fwVars, subVars>>

SpecServices == SvcSpecInit /\ [][SvcSpecNext]_vars

\* one run of TransferSubscriptionTokensTask
XferSpecInit == ObsInit /\ SvcIdle /\ XferInit /\ TgtIdle /\ RecIdle
    /\ UsrIdle /\ FwIdle /\ SubIdle

XferSpecNext == XferNext /\ UNCHANGED <<obsVars, svcVars, tgtVars, recVars
    , usrVars, fwVars, subVars>>

SpecTransfer == XferSpecInit /\ [][XferSpecNext]_vars

\* one run of ConfigureSystemdDefaultTargetTask
TgtSpecInit == ObsInit /\ SvcIdle /\ XferIdle /\ TgtInit /\ RecIdle /\ UsrIdle
    /\ FwIdle /\ SubIdle

TgtSpecNext == TgtNext /\ UNCHANGED <<obsVars, svcVars, xferVars, recVars
    , usrVars, fwVars, subVars>>

SpecTarget == TgtSpecInit /\ [][TgtSpecNext]_vars

\* one user record converted between kickstart data and UserData
RecSpecInit == ObsInit /\ SvcIdle /\ XferIdle /\ TgtIdle /\ RecInit /\ UsrIdle
    /\ FwIdle /\ SubIdle

RecSpecNext == RecNext /\ UNCHANGED <<obsVars, svcVars, xferVars, tgtVars
    , usrVars, fwVars, subVars>>

SpecUserRecord == RecSpecInit /\ [][RecSpecNext]_vars

\* the Users module behind its interface
UsrSpecInit == ObsInit /\ SvcIdle /\ XferIdle /\ TgtIdle /\ RecIdle /\ UsrInit
    /\ FwIdle /\ SubIdle

UsrSpecNext == UsrNext /\ UNCHANGED <<obsVars, svcVars, xferVars, tgtVars
    , recVars, fwVars, subVars>>

SpecUsers == UsrSpecInit /\ [][UsrSpecNext]_vars

\* the Firewall module behind its interface
FwSpecInit == ObsInit /\ SvcIdle /\ XferIdle /\ TgtIdle /\ RecIdle /\ UsrIdle
    /\ FwInit /\ SubIdle

FwSpecNext == FwNext /\ UNCHANGED <<obsVars, svcVars, xferVars, tgtVars
    , recVars, usrVars, subVars>>

SpecFirewall == FwSpecInit /\ [][FwSpecNext]_vars

\* the Subscription module behind its interface
SubSpecInit == ObsInit /\ SvcIdle /\ XferIdle /\ TgtIdle /\ RecIdle /\ UsrIdle
    /\ FwIdle /\ SubInit

SubSpecNext == SubNext /\ UNCHANGED <<obsVars, svcVars, xferVars, tgtVars
    , recVars, usrVars, fwVars>>

SpecSubscription == SubSpecInit /\ [][SubSpecNext]_vars

\* =====================================================================
\* properties of the ServiceObserver (specification Spec)
\* =====================================================================

\* a thread is inside get_proxy(), a callback is running or the timer is alive
ObsBusy ==
    \/ \E t \in Callers : pc[t] # "idle"
    \/ emitPc # "idle"
    \/ timerPc \in {"waiting", "call", "locked"}

ObsStep == ObsProgress /\ UNCHANGED <<svcVars, xferVars, tgtVars, recVars, usrVars, fwVars, subVars>>

\* caller t completes its call in this step
Completes(t) == pc[t] # "idle" /\ pc'[t] = "idle"

\* the ServiceObserver with every thread that is inside one of its operations
\* scheduled fairly: a caller, the Timer thread and the callback each take their
\* next step when it stays possible
ObsFairness ==
    LET others == <<svcVars, xferVars, tgtVars, recVars, usrVars, fwVars, subVars>>
    IN /\ \A t \in Callers : WF_vars(CallerStep(t) /\ UNCHANGED others)
       /\ WF_vars(TimerStep /\ UNCHANGED others)
       /\ WF_vars(CallbackStep /\ UNCHANGED others)

\* the fair specification has as many get_proxy() calls as callers and one
\* emission fewer than the others, which keeps the graph searched for cycles small
FairNext ==
    /\ Next
    /\ calls' <= NumCallers
    /\ emits' < MaxEmits

SpecFair == Init /\ [][FairNext]_vars /\ ObsFairness

\* the ServiceObserver when util.start_service may raise
ObsFailSpecNext == ObsFailNext /\ UNCHANGED <<svcVars, xferVars, tgtVars, recVars,
    usrVars, fwVars, subVars>>

SpecStartFails == Init /\ [][ObsFailSpecNext]_vars

\* process_kickstart, the registrations and the attach on a Subscription
\* module made by __init__
SubKsSpecInit == ObsInit /\ SvcIdle /\ XferIdle /\ TgtIdle /\ RecIdle /\ UsrIdle
    /\ FwIdle /\ SubKsInit

SubKsSpecNext == SubKsNext /\ UNCHANGED <<obsVars, svcVars, xferVars, tgtVars,
    recVars, usrVars, fwVars>>

SpecSubscriptionKickstart == SubKsSpecInit /\ [][SubKsSpecNext]_vars

\* the callers whose call began in the given phase and has completed
Completed(phase) ==
    {t \in Callers : began[t] = phase /\ pc[t] = "idle" /\ result[t] # NoResult}

\* C1: when _service_activated runs before the timer expires, every call begun
\* before activation resolved returns a proxy, and all return the same object.
C1_AllReturnSameProxy ==
    activatedInTime =>
        \A t, u \in Completed("early") :
            /\ result[t] # DBusObserverError
            /\ result[t] = result[u]

\* C2: when the timer expires before service_available is emitted, every call
\* begun before activation resolved raises DBusObserverError, none returns a proxy.
C2_AllRaiseOnTimeout ==
    expiredFirst => \A t \in Completed("early") : result[t] = DBusObserverError

C4_LateCallIsImmediate ==
    /\ [](\A t \in Callers :
            (began[t] = "late" /\ pc[t] # "idle") =>
                /\ pc[t] \notin {"start", "mktimer", "connect"}
                /\ pc[t] = "join" => timerPc = "done")
    /\ [][/\ timerPc = "done" =>
                (timerPc' = "done" /\ startCount' = startCount
                                   /\ timerCount' = timerCount)
          /\ \A t \in Callers :
                (began[t] = "late" /\ Completes(t)) =>
                    result'[t] = IF proxy # None THEN Returned(proxy)
                                                 ELSE DBusObserverError]_vars

C4_Witness ==
    /\ \E t \in Completed("late") : result[t] = DBusObserverError
    /\ \E t \in Completed("late") : result[t] = Returned(proxy)
    /\ startCount = 1
    /\ timerCount = 1

\* C5: the timeout failure is permanent: once the timer has expired with no proxy
\* set, _proxy stays None and every later get_proxy() call raises.
C5_TimeoutIsPermanent ==
    [][/\ (timedOut /\ timerPc = "done" /\ proxy = None) => proxy' = None
       /\ failedAfterTimeout =>
            \A t \in Callers : Completes(t) => result'[t] = DBusObserverError]_vars

\* C6: no thread holds _proxy_lock while it is blocked in Timer.join(), and no
\* state in which a caller, a callback or the timer is active is a deadlock.
C6_NoLockWhileJoining ==
    /\ \A t \in Callers : pc[t] = "join" => lockOwner # t
    /\ ObsBusy => ENABLED ObsStep

C6_Witness ==
    /\ \A t \in Callers : pc[t] = "join"
    /\ timerPc = "call"
    /\ lockOwner = EmitterThread

\* C7: once _proxy is non-None no operation sets it back to None.
C7_ProxyNeverReset == [][proxy # None => proxy' # None]_vars

C7_Witness ==
    /\ proxy # None
    /\ timedOut
    /\ timerPc = "done"
    /\ \E t \in Callers : result[t] = Returned(proxy)

\* C8: _proxy is assigned at most once over the life of the observer.
C8_ProxyAssignedAtMostOnce == assignCount <= 1

\* C25: the first caller starts the systemd unit, then creates and starts the
\* timer, then connects _service_activated; so the timer exists whenever
\* _service_activated is connected or runs, and its cancel() finds a timer.
C25_TimerSetBeforeActivated ==
    /\ timerCount > 0 => startCount > 0
    /\ connected => timerSet
    /\ emitPc \in {"cb", "cancel", "set"} => timerSet
    /\ \A t \in Callers :
          /\ pc[t] = "mktimer" => (startCount > 0 /\ ~timerSet /\ ~connected)
          /\ pc[t] = "connect" => (startCount > 0 /\ timerSet /\ ~connected)

C25_Witness ==
    /\ emitPc = "set"
    /\ cancelled
    /\ activatedInTime
    /\ startCount = 1
    /\ timerCount = 1

\* C30: when util.start_service raises in a get_proxy() call, the call ends with
\* that error and leaves the observer as it was: no proxy, no timer, nothing
\* connected, the lock free; no caller waits on a timer, and a later call runs
\* the start sequence again.
C30_FailedStartLeavesObserverUnchanged ==
    /\ [][\A t \in Callers :
            (pc[t] = "start" /\ result'[t] = StartServiceError) =>
                /\ UNCHANGED <<proxy, timerSet, connected, obsTimer>>
                /\ proxy' = None
                /\ ~timerSet'
                /\ ~connected'
                /\ lockOwner' = NoThread
                /\ pc'[t] = "idle"
         ]_vars
    /\ [](startCount > 0 /\ timerCount = 0 /\
            (\A t \in Callers : pc[t] \notin {"start", "mktimer"}) =>
                /\ ServiceNotStarted
                /\ proxy = None
                /\ lockOwner \in {NoThread} \cup {t \in Callers : pc[t] = "check"}
                /\ \A t \in Callers : pc[t] \in {"idle", "acquire", "check"})

C30_Witness ==
    /\ startCount = 2
    /\ \E t \in Callers : result[t] = StartServiceError /\ pc[t] = "idle"
    /\ \E t \in Callers : pc[t] = "join"

\* C24: under fair scheduling every get_proxy() call ends: from some point on
\* no caller is inside get_proxy(), none waits in join(), and every call made
\* has returned a proxy or raised DBusObserverError. (The number of calls is
\* bounded, so this says that each of them terminates.)
C24_EveryCallTerminates ==
    <>[](\A t \in Callers :
            /\ pc[t] = "idle"
            /\ \/ result[t] \in {NoResult, DBusObserverError}
               \/ \E p \in ProxyObjects : result[t] = Returned(p))

C24_Witness ==
    /\ \E t \in Callers : result[t] = DBusObserverError /\ pc[t] = "idle"
    /\ \E t \in Callers : \E p \in ProxyObjects :
          result[t] = Returned(p) /\ pc[t] = "idle" /\ began[t] = "early"
    /\ timedOut

\* =====================================================================
\* properties of ConfigureServicesTask (specification SpecServices)
\* =====================================================================
Range(q) == {q[i] : i \in 1..Len(q)}

\* the calls run() makes for one list, in the order of the list
SvcCalls(op, names) == [i \in 1..Len(names) |-> <<op, names[i]>>]

\* C9: run() issues every disable_service call before any enable_service call for
\* any contents and order of the two lists, so a service named in both lists
\* ends enabled.
C9_DisableBeforeEnable ==
    /\ \A i, j \in 1..Len(svcLog) :
         (svcLog[i][1] = "enable" /\ svcLog[j][1] = "disable") => j < i
    /\ SvcDone =>
         /\ svcLog = SvcCalls("disable", disabled_services)
                        \o SvcCalls("enable", enabled_services)
         /\ \A s \in Range(disabled_services) \cap Range(enabled_services) :
              svcState[s] = "enabled"

C9_Witness ==
    /\ SvcDone
    /\ disabled_services = <<"a", "b">>
    /\ enabled_services = <<"b">>
    /\ svcState["a"] = "disabled"
    /\ svcState["b"] = "enabled"

\* =====================================================================
\* properties of TransferSubscriptionTokensTask (specification SpecTransfer)
\* =====================================================================

\* the order the claim fixes: system purpose, then the five credential steps
C10_Order ==
    <<"system_purpose", "config", "consumer_key", "consumer_cert",
      "entitlement_keys", "repo_file">>

\* the source of a credential step is there to be copied
SourcePresent(step) ==
    CASE step = "config" -> srcFiles.config
      [] step = "consumer_key" -> srcFiles.consumer_key
      [] step = "consumer_cert" -> srcFiles.consumer_cert
      [] step = "entitlement_keys" -> srcFiles.entitlement \in {"nopem", "pem"}
      [] step = "repo_file" -> srcFiles.repo_file
      [] OTHER -> TRUE

\* C10: run() attempts the system-purpose transfer first and unconditionally,
\* then, only when transfer_subscription_tokens is true, the five credential
\* steps in the fixed order; the first step that fails raises and no later step
\* copies anything.
C10_FixedOrderFirstFailureAborts ==
    /\ Len(xferLog) <= Len(C10_Order)
    /\ \A i \in 1..Len(xferLog) : xferLog[i] = C10_Order[i]
    /\ xferStatus # "running" => Len(xferLog) >= 1
    /\ ~transfer_subscription_tokens => (Len(xferLog) <= 1 /\ xferStatus # "raised")
    /\ \A i \in 1..Len(xferLog) :
         ~SourcePresent(xferLog[i]) => (i = Len(xferLog) /\ xferStatus = "raised")
    /\ xferStatus = "raised" => ~SourcePresent(xferLog[Len(xferLog)])
    /\ (xferStatus = "returned" /\ transfer_subscription_tokens) =>
         xferLog = C10_Order
    /\ xferCopied \subseteq (Range(xferLog) \ {s \in Range(xferLog) : ~SourcePresent(s)})

C10_Witness ==
    /\ xferStatus = "raised"
    /\ xferLog = <<"system_purpose", "config", "consumer_key", "consumer_cert">>
    /\ srcFiles.entitlement = "pem"
    /\ srcFiles.repo_file
    /\ xferCopied = {"system_purpose", "config", "consumer_key"}

\* C11: with transfer_subscription_tokens false, run() copies at most the
\* syspurpose file, copies no credential file, and raises no error whichever
\* credential files are absent.
C11_NoTokensCopiesOnlySyspurpose ==
    ~transfer_subscription_tokens =>
        /\ xferCopied \subseteq {"system_purpose"}
        /\ xferStatus # "raised"
        /\ Len(xferLog) <= 1

C11_Witness ==
    /\ ~transfer_subscription_tokens
    /\ xferStatus = "returned"
    /\ xferCopied = {"system_purpose"}
    /\ ~srcFiles.config
    /\ ~srcFiles.consumer_key
    /\ srcFiles.entitlement = "absent"
    /\ srcFiles.repo_file

\* the credentials run() must transfer when the tokens are wanted
C12_Required == {"config", "consumer_key", "consumer_cert", "entitlement_keys", "repo_file"}

\* a required source is absent from the installation environment
C12_SourceAbsent ==
    \/ ~srcFiles.config
    \/ ~srcFiles.consumer_key
    \/ ~srcFiles.consumer_cert
    \/ srcFiles.entitlement = "absent"
    \/ ~srcFiles.repo_file

\* with the tokens wanted: an absent required source makes run() raise, and an
\* absent syspurpose file is passed over without an error
C12_RaisesOnAbsent ==
    (transfer_subscription_tokens /\ xferStatus # "running") =>
        /\ C12_SourceAbsent => xferStatus = "raised"
        /\ srcFiles.syspurpose = "absent" =>
              ("system_purpose" \notin xferCopied /\ Len(xferLog) > 1)

\* C12: with transfer_subscription_tokens true, run() raises
\* SubscriptionTokenTransferError whenever a required source is absent, an absent
\* syspurpose file is a silent no-op, and a run that raises no error has copied
\* every required credential to the target root.
C12_ReturnMeansAllCopied ==
    /\ C12_RaisesOnAbsent
    /\ (transfer_subscription_tokens /\ xferStatus = "returned") =>
          C12_Required \subseteq xferCopied

\* C12 as the code has it: a run that raises no error has copied the four
\* credential files, has found the entitlement directory non-empty, and has
\* copied entitlement keys exactly when the directory holds *.pem files.
C12_ReturnMeansFilesCopied ==
    /\ C12_RaisesOnAbsent
    /\ (transfer_subscription_tokens /\ xferStatus = "returned") =>
          /\ (C12_Required \ {"entitlement_keys"}) \subseteq xferCopied
          /\ srcFiles.entitlement \in {"nopem", "pem"}
          /\ "entitlement_keys" \in xferCopied <=> srcFiles.entitlement = "pem"

C12_Witness ==
    /\ transfer_subscription_tokens
    /\ xferStatus = "returned"
    /\ srcFiles.syspurpose = "absent"
    /\ srcFiles.entitlement = "nopem"
    /\ xferCopied = C12_Required \ {"entitlement_keys"}

\* =====================================================================
\* properties of ConfigureSystemdDefaultTargetTask (specification SpecTarget)
\* =====================================================================

\* the supported set the claim speaks of
C13_Supported == {"multi-user.target", "graphical.target"}

\* C13: run() raises SystemdDefaultTargetConfigurationError when the target name
\* is not in the supported set or when <sysroot>/etc/systemd/system is not a
\* directory, and in both cases it has made no filesystem change (no unlink, no
\* symlink) before raising.
C13_RaisesBeforeAnyChange ==
    /\ (tgtStatus # "running" /\ (default_target \notin C13_Supported \/ ~etcSystemd))
          => tgtStatus = "raised"
    /\ tgtStatus = "raised" =>
          /\ default_target \notin C13_Supported \/ ~etcSystemd
          /\ tgtOps = <<>>
          /\ defaultLink = defaultLink0

C13_Witness ==
    /\ tgtStatus = "raised"
    /\ default_target = "rescue.target"
    /\ etcSystemd
    /\ defaultLink = "graphical.target"
    /\ tgtOps = <<>>

\* =====================================================================
\* properties of the user record conversions (specification SpecUserRecord)
\* =====================================================================

\* C14: apply_ksdata_to_user_data maps an absent uid/gid to -1 and any other
\* value to itself, user_data_to_ksdata maps -1 to None and any other value to
\* itself, and converting in either direction and back returns the original
\* value for every value other than the sentinel's counterpart.
C14_UidGidRoundTrip ==
    \A field \in {"uid", "gid"} :
        LET orig == recOrig.rec[field]
            cur == recCur.rec[field]
        IN /\ recPath = <<"apply">> =>
                cur = (IF orig = KsNone THEN <<"int", -1>> ELSE orig)
           /\ recPath = <<"to_ks">> =>
                cur = (IF orig = <<"int", -1>> THEN KsNone ELSE orig)
           /\ (recPath = <<"apply", "to_ks">> /\ orig # <<"int", -1>>) => cur = orig
           /\ (recPath = <<"to_ks", "apply">> /\ orig # KsNone) => cur = orig

C14_Witness ==
    /\ recPath = <<"apply", "to_ks">>
    /\ recOrig.rec.uid = KsNone
    /\ recOrig.rec.gid = IntVal(2)
    /\ recCur = recOrig

\* =====================================================================
\* properties of the Users module (specification SpecUsers)
\* =====================================================================

\* the groups the claim expects process_kickstart to store for a group list
C15_Stored(groupList) ==
    [i \in 1..Len(groupList) |->
        [name |-> groupList[i].name,
         gid |-> IF groupList[i].gid = KsNone THEN <<"int", -1>>
                 ELSE groupList[i].gid]]

\* C15: process_kickstart on a description with groups completes and stores one
\* group per kickstart group, its name preserved and its gid -1 when the
\* kickstart gid is absent (the given gid otherwise), and generate_kickstart
\* emits an absent gid exactly for the stored groups whose gid is -1.
C15_GroupsSentinelLaw ==
    [][/\ (usrLast'.op = "ReadKickstart" /\ usrLast'.groupList # <<>>) =>
            /\ ~usrLast'.raised
            /\ groups' = C15_Stored(usrLast'.groupList)
       /\ usrLast'.op = "GenerateKickstart" =>
            /\ Len(usrKs'[1].groupList) = Len(groups)
            /\ \A i \in 1..Len(groups) :
                  usrKs'[1].groupList[i].gid = KsNone <=> groups[i].gid = <<"int", -1>>
      ]_vars

\* C16: after any sequence of SetCryptedRootPassword, ClearRootPassword,
\* SetRootAccountLocked and kickstart imports, IsRootPasswordSet is true exactly
\* when the stored root password string is non-empty; it is false on a fresh
\* module and after ClearRootPassword.
C16_PasswordSetIffNonEmpty ==
    /\ IsRootPasswordSet <=> root_password # ""
    /\ usrLast.op \in {"__init__", "ClearRootPassword"} => ~IsRootPasswordSet

C16_Witness ==
    /\ usrLast.op = "ClearRootPassword"
    /\ rootpw_seen
    /\ root_account_locked
    /\ ~IsRootPasswordSet

\* C17: SetCryptedRootPassword and ClearRootPassword leave IsRootAccountLocked
\* unchanged and report a change of IsRootPasswordSet only; SetRootAccountLocked
\* leaves IsRootPasswordSet unchanged and reports a change of IsRootAccountLocked
\* only; the lock value is always the last one written, by kickstart import or
\* by the setter.
C17_PasswordAndLockIndependent ==
    [][/\ usrLast'.op \in {"SetCryptedRootPassword", "ClearRootPassword"} =>
            /\ IsRootAccountLocked' = IsRootAccountLocked
            /\ usrNotified' = {"IsRootPasswordSet"}
       /\ usrLast'.op = "SetRootAccountLocked" =>
            /\ IsRootPasswordSet' = IsRootPasswordSet
            /\ usrNotified' = {"IsRootAccountLocked"}
       /\ IsRootAccountLocked' =
            (IF usrLast'.op \in {"SetRootAccountLocked", "ReadKickstart"}
               THEN usrLast'.lock ELSE IsRootAccountLocked)
      ]_vars

C17_Witness ==
    /\ usrLast.op = "SetRootAccountLocked"
    /\ ~IsRootAccountLocked
    /\ usrNotified = {"IsRootAccountLocked"}
    /\ rootpw_seen
    /\ IsRootPasswordSet

\* =====================================================================
\* properties of the Firewall module (specification SpecFirewall)
\* =====================================================================

\* C19: process_kickstart(data) maps the description onto the properties:
\* afterwards use_system_defaults, firewall_enabled, enabled_ports, trusts,
\* enabled_services and disabled_services equal data.use_system_defaults,
\* data.enabled, data.ports, data.trusts, data.services and
\* data.remove_services, so that setup_kickstart applied next reproduces them.
C19_KickstartMapsOntoProperties ==
    [][/\ fwLast'.op = "process_kickstart" =>
            /\ ~fwLast'.raised
            /\ use_system_defaults' = fwData'.use_system_defaults
            /\ firewall_enabled' = fwData'.enabled
            /\ enabled_ports' = fwData'.ports
            /\ trusts' = fwData'.trusts
            /\ fw_enabled_services' = fwData'.services
            /\ fw_disabled_services' = fwData'.remove_services
       /\ (fwLast.op = "process_kickstart" /\ fwLast'.op = "setup_kickstart") =>
            fwData' = fwData
      ]_vars

\* =====================================================================
\* properties of the Subscription module (specification SpecSubscription)
\* =====================================================================

\* the property each setter of the three interfaces writes
C18_SetterProperty ==
    [SetCryptedRootPassword |-> "IsRootPasswordSet",
     ClearRootPassword |-> "IsRootPasswordSet",
     SetRootAccountLocked |-> "IsRootAccountLocked",
     SetRootpwKickstarted |-> "IsRootpwKickstarted",
     SetUsers |-> "Users",
     SetGroups |-> "Groups",
     SetSshKeys |-> "SshKeys",
     SetUseSystemDefaults |-> "UseSystemDefaults",
     SetFirewallEnabled |-> "FirewallEnabled",
     SetEnabledPorts |-> "EnabledPorts",
     SetTrusts |-> "Trusts",
     SetEnabledServices |-> "EnabledServices",
     SetDisabledServices |-> "DisabledServices",
     SetRole |-> "Role",
     SetSLA |-> "SLA",
     SetUsage |-> "Usage",
     SetAddons |-> "Addons",
     SetOrganization |-> "Organization",
     SetActivationKey |-> "IsActivationKeySet",
     SetAccountUsername |-> "AccountUsername",
     SetAccountPassword |-> "IsAccountPasswordSet",
     SetSubscriptionUrl |-> "SubscriptionUrl"]

\* the value a setter of the Subscription interface has to store, in the module
\* record m
C18_Written(op, m) ==
    CASE op = "SetRole" -> m.role
      [] op = "SetSLA" -> m.sla
      [] op = "SetUsage" -> m.usage
      [] op = "SetAddons" -> m.addons
      [] op = "SetOrganization" -> m.organization
      [] op = "SetActivationKey" -> m.activation_key
      [] op = "SetAccountUsername" -> m.red_hat_account_username
      [] op = "SetAccountPassword" -> m.red_hat_account_password
      [] op = "SetSubscriptionUrl" -> m.subscription_url

\* C18: every call of a setter of the Users, Firewall and Subscription
\* interfaces completes, stores the value and causes a PropertiesChanged that
\* names the property the setter writes; SetOrganization, SetActivationKey,
\* SetAccountUsername, SetAccountPassword and SetSubscriptionUrl do so as the
\* system purpose setters do.
C18_EverySetterNotifies ==
    [][/\ usrLast'.op \in DOMAIN C18_SetterProperty =>
            /\ ~usrLast'.raised
            /\ C18_SetterProperty[usrLast'.op] \in usrNotified'
       /\ fwLast'.op \in DOMAIN C18_SetterProperty =>
            /\ ~fwLast'.raised
            /\ C18_SetterProperty[fwLast'.op] \in fwNotified'
       /\ subLast'.op \in DOMAIN C18_SetterProperty =>
            /\ ~subLast'.raised
            /\ C18_Written(subLast'.op, SubModule') = subArg'[1]
            /\ C18_SetterProperty[subLast'.op] \in subNotified'
      ]_vars

\* C20: the description generate_kickstart makes of a module, processed by
\* process_kickstart on a module made by __init__, leaves that module with the
\* same role, SLA, usage, addons, organization, activation key and subscription
\* URL, custom values included.
C20_KickstartRoundTrip ==
    [][subLast'.op = "RoundTrip" =>
            /\ role' = role
            /\ sla' = sla
            /\ usage' = usage
            /\ addons' = addons
            /\ organization' = organization
            /\ activation_key' = activation_key
            /\ subscription_url' = subscription_url
      ]_vars

\* =====================================================================
\* properties of process_kickstart, the registrations and the attach
\* (specification SpecSubscriptionKickstart)
\* =====================================================================

\* the value a role, SLA or usage has after the import of the given kickstart
\* value: the valid field "Server", "Premium" or "Production" for a value that
\* is one but for case and white space, the value itself otherwise, the stored
\* value when there is none
C21_Expected(value, stored) ==
    CASE value = "" -> stored
      [] value \in {"Server", "server "} -> "Server"
      [] value = "Premium" -> "Premium"
      [] value \in {"Production", "production "} -> "Production"
      [] OTHER -> value

\* C21: process_kickstart sets role, SLA and usage to the valid field a
\* non-empty kickstart value matches, stores a non-empty value that matches none
\* as it is, and leaves the property alone for an empty value: the setter is
\* not called, so its signal is not emitted and the property is not reported.
C21_ImportMatchesValidFields ==
    [][subLast'.op = "process_kickstart" =>
         /\ role' = C21_Expected(subKs'.data.role, role)
         /\ sla' = C21_Expected(subKs'.data.sla, sla)
         /\ usage' = C21_Expected(subKs'.data.usage, usage)
         /\ "role_changed" \in subKs'.signals <=> subKs'.data.role # ""
         /\ "sla_changed" \in subKs'.signals <=> subKs'.data.sla # ""
         /\ "usage_changed" \in subKs'.signals <=> subKs'.data.usage # ""
         /\ subKs'.data.role = "" => "Role" \notin subNotified'
         /\ subKs'.data.sla = "" => "SLA" \notin subNotified'
         /\ subKs'.data.usage = "" => "Usage" \notin subNotified'
      ]_vars

C21_Witness ==
    /\ subLast.op = "process_kickstart"
    /\ subCalls = 2
    /\ subKs.data.role = "server "
    /\ role = "Server"
    /\ usage = "Production"
    /\ "Role" \in subNotified

\* C22: _register_with_org_key, _register_with_username_password and
\* _auto_attach_subscription never raise: whatever fails while the remote
\* service is reached or called, the call returns False.
C22_RegistrationNeverRaises ==
    subLast.op \in {"_register_with_org_key", "_register_with_username_password",
                    "_auto_attach_subscription"} =>
        /\ ~subLast.raised
        /\ subResult \in {SubReturned(TRUE), SubReturned(FALSE)}

\* the place of each remote step in the order process_kickstart is to keep
C26_Place ==
    [start_service |-> 1, set_url |-> 2, restart_service |-> 3,
     start_private_bus |-> 4, register |-> 5, attach |-> 6]

\* C26: process_kickstart begins its remote steps in the order start service,
\* set URL, restart, start private bus, register, attach; it registers only
\* with an organization and an activation key and after the private bus was
\* started, and attaches only when the module is registered.
C26_RemoteStepsInOrder ==
    LET steps == subKs.steps
        begun == {steps[i] : i \in 1..Len(steps)}
    IN /\ \A i, j \in 1..Len(steps) :
              i < j => C26_Place[steps[i]] < C26_Place[steps[j]]
       /\ subLast.op = "process_kickstart" =>
              /\ steps # <<>>
              /\ steps[1] = "start_service"
       /\ "restart_service" \in begun => "set_url" \in begun
       /\ "register" \in begun =>
              /\ organization # ""
              /\ activation_key # ""
              /\ "start_private_bus" \in begun
       /\ "attach" \in begun => registered

C26_Witness ==
    /\ subLast.op = "process_kickstart"
    /\ Len(subKs.steps) = 6
    /\ registered
    /\ subscription_attached

\* C29: whatever process_kickstart calls were made and however their
\* registrations and attaches ended, a module with a subscription attached is
\* registered.
C29_AttachedOnlyIfRegistered == subscription_attached => registered

\* =====================================================================
\* further properties of the Firewall and Users modules (specifications
\* SpecFirewall and SpecUsers)
\* =====================================================================

\* C23: the Trusts property of the Firewall interface is empty on a new module,
\* is the list given to SetTrusts after a SetTrusts call, and is not changed by
\* SetEnabledPorts.
C23_TrustsFollowsSetTrusts ==
    [][/\ fwLast.op = "__init__" => Trusts = <<>>
       /\ (fwLast'.op = "SetTrusts" /\ ~fwLast'.raised) => Trusts' = trusts'
       /\ fwLast'.op = "SetEnabledPorts" => Trusts' = Trusts
      ]_vars

\* C27: an export changes no property: generate_kickstart of the Users module
\* leaves the root password fields, the users, the groups with their gids and
\* the ssh keys as they were, setup_kickstart of the Firewall module leaves its
\* properties as they were, and an export that follows an export gives the same
\* description.
C27_ExportChangesNothing ==
    [][/\ usrLast'.op = "GenerateKickstart" =>
            /\ UNCHANGED <<root_password, root_password_is_crypted,
                           root_account_locked, rootpw_seen, users, groups, ssh_keys>>
            /\ usrLast.op = "GenerateKickstart" => usrKs' = usrKs
       /\ fwLast'.op = "setup_kickstart" =>
            /\ UNCHANGED <<firewall_seen, use_system_defaults, firewall_enabled,
                           enabled_ports, trusts, fw_enabled_services,
                           fw_disabled_services>>
            /\ fwLast.op = "setup_kickstart" => fwData' = fwData
      ]_vars

\* the setters of the Firewall module
C28_Setters ==
    {"SetUseSystemDefaults", "SetFirewallEnabled", "SetEnabledPorts", "SetTrusts",
     "SetEnabledServices", "SetDisabledServices"}

====
